---- MODULE Spec2Model ----
(***************************************************************************)
(* Model of the cache layer of osm-borders: the cache manager and its      *)
(* storage drivers (converters/tools.py) and the TERYT registry caches     *)
(* built on it (converters/teryt.py).                                      *)
(*                                                                         *)
(* Python values are modelled with their type: a str is [t |-> "str", ...],*)
(* an int is [t |-> "int", ...], so that "0982954" and 982954 differ as    *)
(* they do in Python.  An optional value is a sequence of length 0 (None)  *)
(* or 1.  A dict is a function from its keys.                              *)
(***************************************************************************)
EXTENDS Integers, Sequences, FiniteSets, TLC

VARIABLES
    driver,      \* which CacheDriver the process-wide CacheManager uses
    tables,      \* the driver's named key-value tables, "meta" included
    itemCount,   \* DynamoDB's published ItemCount of each table
    throughput,  \* DynamoDB's provisioned WriteCapacityUnits of each table
    now,         \* the clock read by time.time(), in ticks
    last,        \* the call the caller made last, and its outcome
    cat,         \* the catalog of the BaseTerytCache instance: "simc" or "terc"
    tz,          \* the local time zone's offset from UTC, in seconds
    remoteDay,   \* the date of the registry's current catalog
    eng,         \* the instance's fields version_ttl and _version
    run          \* the instance's call in progress: its position and locals

vars == <<driver, tables, itemCount, throughput, now, last, cat, tz, remoteDay, eng, run>>

\* the state of the cache manager's process and of the registry sync engine
mgrVars == <<driver, tables, itemCount, throughput, now, last>>
engVars == <<cat, tz, remoteDay, eng, run>>

----------------------------------------------------------------------------
(* Bounds of the model *)

\* registry versions are the dates 1..MaxDay
MaxDay == 2
\* the clock is read at ticks 1..MaxTicks
MaxTicks == 2
\* a catalog snapshot has at most MaxRows rows
MaxRows == 2
\* a registry update has at most MaxDelta change records
MaxDelta == 2
\* get() calls itself at most MaxRetries times
MaxRetries == 2

----------------------------------------------------------------------------
(* Names and constants of the program *)

META == "meta"
TERYT_SIMC_DB == "osm_teryt_simc_v1"
TERYT_WMRODZ_DB == "osm_teryt_wmrodz_v1"
TERYT_TERYT_DB == "osm_teryt_teryt_v1"
TERYT_ULIC_DB == "osm_teryt_ulic_v1"

\* the names of the caches of the program
CacheNames == {TERYT_SIMC_DB, TERYT_WMRODZ_DB, TERYT_TERYT_DB, TERYT_ULIC_DB}
\* the names a caller passes to the cache manager
CallNames == {META, TERYT_SIMC_DB, TERYT_WMRODZ_DB}

\* seconds of one calendar day: calendar.timegm of a date is a multiple of it
Day == 86400
\* seconds of one hour, the unit of a time zone's offset from UTC
Hour == 3600
VERSION_TTL == 3600

\* the dates the registry publishes catalogs for, as days since the epoch
Days == 2..(MaxDay + 1)
\* the local time zone: Central European Time
TzOffsets == {Hour}

----------------------------------------------------------------------------
(* Python values *)

None == <<>>
\* the value of F for x = v, with v worked out once
Bind(v, F(_)) == CHOOSE y \in {F(x) : x \in {v}} : TRUE

Some(x) == <<x>>
IsNone(o) == Len(o) = 0
Val(o) == o[1]

EmptyDict == <<>>
DictGet(d, k, default) == IF k \in DOMAIN d THEN d[k] ELSE default
\* d with the items of upd written over it (d[k] = v for each item of upd)
DictSet(d, upd) == upd @@ d

\* truth value of an optional int (None and 0 are false)
TruthyOptInt(o) == ~IsNone(o) /\ Val(o) # 0
\* truth value of an optional dict (None and {} are false)
TruthyOptDict(o) == ~IsNone(o) /\ DOMAIN Val(o) # {}

\* the outcome of a call: err = "" when it returned, else the exception raised
Ok(v) == [err |-> "", val |-> v]
Raise(e) == [err |-> e, val |-> None]

\* time.time() at clock tick n; successive readings of the clock that differ
\* are more than one VERSION_TTL apart
time_time(n) == n * (VERSION_TTL + 1)

----------------------------------------------------------------------------
(* Serializers *)

JsonSerializer_serialize(dct) == [json |-> dct]
JsonSerializer_deserialize(data) == data.json

----------------------------------------------------------------------------
(* Typed Python values held in entity attributes and in the dicts written   *)
(* to a cache: str, int and None                                            *)

S(x) == [t |-> "str", v |-> x]
I(n) == [t |-> "int", v |-> n]
PyNone == [t |-> "none", v |-> ""]
\* Python's ==: values of different types are unequal
PyEq(a, b) == a.t = b.t /\ a.v = b.v

PyTruthy(x) == IF x.t = "str" THEN x.v # ""
               ELSE IF x.t = "int" THEN x.v # 0
               ELSE FALSE

DigitVal == ("0" :> 0) @@ ("1" :> 1) @@ ("2" :> 2) @@ ("3" :> 3) @@ ("4" :> 4)
            @@ ("5" :> 5) @@ ("6" :> 6) @@ ("7" :> 7) @@ ("8" :> 8) @@ ("9" :> 9)

RECURSIVE StrToInt(_)
StrToInt(s) == IF Len(s) = 0 THEN 0
               ELSE StrToInt(SubSeq(s, 1, Len(s) - 1)) * 10
                    + DigitVal[SubSeq(s, Len(s), Len(s))]

\* int(x) for a str of digits or an int; int(None) raises TypeError
CanInt(x) == x.t # "none"
py_int(x) == IF x.t = "str" THEN I(StrToInt(x.v)) ELSE x

\* the text of a field of a row or None when the row has no such field
RowGet(row, k) == IF k \in DOMAIN row THEN S(row[k]) ELSE PyNone

----------------------------------------------------------------------------
(* ProtoSerializer: the dict goes through a protobuf message and comes back *)
(* with the fields that were set                                            *)

ProtoSerializer_serialize(dct) == [pb |-> dct]
ProtoSerializer_deserialize(data) == data.pb

----------------------------------------------------------------------------
(* SimcEntry *)

\* SimcEntry(dct) for a row of the catalog
SimcEntry_init(dct) ==
    [ terc   |-> S(dct["woj"] \o dct["pow"] \o dct["gmi"] \o dct["rodz_gmi"]),
      rm_id  |-> RowGet(dct, "rm"),
      nazwa  |-> RowGet(dct, "nazwa"),
      sym    |-> RowGet(dct, "sym"),
      parent |-> IF ~PyEq(RowGet(dct, "sym"), RowGet(dct, "sympod"))
                 THEN RowGet(dct, "sympod") ELSE PyNone ]

SimcEntry_cache_key(e) == e.sym

SimcEntry_to_dict(e) ==
    IF ~(CanInt(e.terc) /\ CanInt(e.rm_id) /\ CanInt(e.sym)) THEN Raise("TypeError")
    ELSE LET ret == [terc |-> py_int(e.terc), rm |-> py_int(e.rm_id),
                     nazwa |-> e.nazwa, sym |-> py_int(e.sym)]
         IN Ok(IF PyTruthy(e.parent) THEN ("parent" :> py_int(e.parent)) @@ ret
               ELSE ret)

SimcEntry_from_dict(dct) ==
    IF ~({"terc", "nazwa", "sym"} \subseteq DOMAIN dct) THEN Raise("KeyError")
    ELSE Ok([ terc   |-> dct["terc"],
              rm_id  |-> DictGet(dct, "rm", I(0)),
              nazwa  |-> dct["nazwa"],
              sym    |-> dct["sym"],
              parent |-> DictGet(dct, "parent", PyNone) ])

----------------------------------------------------------------------------
(* TercEntry *)

TercEntry_init(dct) ==
    [ woj      |-> RowGet(dct, "woj"),
      powiat   |-> RowGet(dct, "pow"),
      gmi      |-> RowGet(dct, "gmi"),
      rodz     |-> RowGet(dct, "rodz"),
      nazwadod |-> IF "nazwadod" \in DOMAIN dct THEN S(dct["nazwadod"]) ELSE S(""),
      nazwa    |-> RowGet(dct, "nazwa") ]

\* the str of an attribute that is true, "" otherwise
StrIfTruthy(x) == IF PyTruthy(x) THEN x.v ELSE ""

TercEntry_terc(e) ==
    S(StrIfTruthy(e.woj) \o StrIfTruthy(e.powiat)
      \o (IF PyTruthy(e.gmi) THEN StrIfTruthy(e.gmi) \o StrIfTruthy(e.rodz) ELSE ""))

TercEntry_cache_key(e) == TercEntry_terc(e)

TercEntry_to_dict(e) ==
    IF ~CanInt(e.woj) \/ (PyTruthy(e.gmi) /\ ~CanInt(e.rodz)) THEN Raise("TypeError")
    ELSE LET ret == [woj |-> py_int(e.woj), nazwadod |-> e.nazwadod, nazwa |-> e.nazwa]
             pow == IF PyTruthy(e.powiat) THEN ("powiat" :> py_int(e.powiat)) ELSE EmptyDict
             gmi == IF PyTruthy(e.gmi)
                    THEN ("gmi" :> py_int(e.gmi)) @@ ("rodz" :> py_int(e.rodz))
                    ELSE EmptyDict
         IN Ok(gmi @@ pow @@ ret)

\* TercEntry.from_dict reads six keys of dct and then calls TercEntry(**{...}):
\* __init__(self, dct) takes no keyword woj, powiat, ..., so the call raises
TercEntry_from_dict(dct) ==
    IF ~({"woj", "powiat", "gmi", "rodz", "nazwadod", "nazwa"} \subseteq DOMAIN dct)
    THEN Raise("KeyError")
    ELSE Raise("TypeError")

----------------------------------------------------------------------------
(* UlicEntry: a street in one locality *)

nvl(obj, substitute) == IF obj.t = "none" THEN substitute ELSE obj

\* _ULIC_CECHA_MAPPING (the two labels with letters outside ASCII are written
\* without their diacritics)
ULIC_CECHA_MAPPING ==
    ("UL." :> "Ulica") @@ ("AL." :> "Aleja") @@ ("PL." :> "Plac")
    @@ ("SKWER" :> "Skwer") @@ ("BULW." :> "Bulwar") @@ ("RONDO" :> "Rondo")
    @@ ("PARK" :> "Park") @@ ("RYNEK" :> "Rynek") @@ ("SZOSA" :> "Szosa")
    @@ ("DROGA" :> "Droga") @@ ("OS." :> "Osiedle") @@ ("OGROD" :> "Ogrod")
    @@ ("WYSPA" :> "Wyspa") @@ ("WYB." :> "Wybrzeze") @@ ("INNE" :> "")

\* str.upper() of the qualifiers the registry writes in lower case
PyUpper(s) ==
    CASE s = "ul." -> "UL." [] s = "al." -> "AL." [] s = "pl." -> "PL."
      [] s = "os." -> "OS." [] OTHER -> s

StartsWith(s, prefix) ==
    Len(s) >= Len(prefix) /\ SubSeq(s, 1, Len(prefix)) = prefix

\* str.strip()
RECURSIVE Strip(_)
Strip(s) ==
    IF Len(s) = 0 THEN s
    ELSE IF SubSeq(s, 1, 1) = " " THEN Strip(SubSeq(s, 2, Len(s)))
    ELSE IF SubSeq(s, Len(s), Len(s)) = " " THEN Strip(SubSeq(s, 1, Len(s) - 1))
    ELSE s

\* " ".join(x for x in parts if x)
RECURSIVE JoinTruthy(_)
JoinTruthy(parts) ==
    IF parts = <<>> THEN ""
    ELSE LET rest == JoinTruthy(Tail(parts))
         IN IF Head(parts) = "" THEN rest
            ELSE IF rest = "" THEN Head(parts)
            ELSE Head(parts) \o " " \o rest

\* mapper of _clean_street_name: the qualifier, or its label, is cut from the
\* front of a name part (prefixes are compared as written, not case-folded)
clean_street_name_mapper(cecha, name) ==
    IF ~PyTruthy(name) THEN Ok(name)
    ELSE IF cecha.t # "str" THEN Raise("AttributeError")
    ELSE IF StartsWith(name.v, cecha.v)
         THEN Ok(S(Strip(SubSeq(name.v, Len(cecha.v) + 1, Len(name.v)))))
    ELSE IF PyUpper(cecha.v) \notin DOMAIN ULIC_CECHA_MAPPING THEN Raise("KeyError")
    ELSE IF StartsWith(name.v, ULIC_CECHA_MAPPING[PyUpper(cecha.v)])
         THEN Ok(S(Strip(SubSeq(name.v,
                                Len(ULIC_CECHA_MAPPING[PyUpper(cecha.v)]) + 1,
                                Len(name.v)))))
    ELSE Ok(S(Strip(name.v)))

\* _clean_street_name: both name parts go through mapper and are joined
\* behind the label of the qualifier
clean_street_name(cecha, nazwa1, nazwa2) ==
    Bind(clean_street_name_mapper(cecha, nazwa1), LAMBDA n1 :
    IF n1.err # "" THEN n1 ELSE
    Bind(clean_street_name_mapper(cecha, nazwa2), LAMBDA n2 :
    IF n2.err # "" THEN n2
    ELSE IF ~PyTruthy(n1.val) /\ ~PyTruthy(n2.val) THEN Ok(S(""))
    ELSE IF cecha.t # "str" THEN Raise("AttributeError")
    ELSE Ok(S(JoinTruthy(<<DictGet(ULIC_CECHA_MAPPING, PyUpper(cecha.v), ""),
                           n1.val.v, n2.val.v>>)))))

\* _row_as_dict: the texts of a row's elements
row_as_dict(row) == [k \in DOMAIN row |-> S(row[k])]

\* UlicEntry(dct): the four parts of terc are added as str
UlicEntry_init(dct) ==
    IF \E k \in {"woj", "pow", "gmi", "rodz_gmi"} : DictGet(dct, k, PyNone).t # "str"
    THEN Raise("TypeError")
    ELSE Ok([ sym        |-> DictGet(dct, "sym", PyNone),
              symul      |-> DictGet(dct, "sym_ul", PyNone),
              cecha_orig |-> DictGet(dct, "cecha", PyNone),
              nazwa_1    |-> nvl(DictGet(dct, "nazwa_1", PyNone), S("")),
              nazwa_2    |-> nvl(DictGet(dct, "nazwa_2", PyNone), S("")),
              terc       |-> S(dct["woj"].v \o dct["pow"].v \o dct["gmi"].v
                               \o dct["rodz_gmi"].v) ])

UlicEntry_cache_key(e) == e.symul

\* _update_to_init_map: the names of a change record's fields as __init__
\* reads them
UlicEntry_update_to_init_map ==
    ("woj" :> "woj") @@ ("pow" :> "pow") @@ ("gmi" :> "gmi") @@ ("rodz" :> "rodz_gmi")
    @@ ("identyfikatormiejscowosci" :> "sym")
    @@ ("identyfikatornazwyulicy" :> "sym_ul")
    @@ ("cecha" :> "cecha") @@ ("nazwa1" :> "nazwa_1") @@ ("nazwa2" :> "nazwa_2")
    @@ ("stan" :> "stan_na")

\* dict((_update_to_init_map.get(k, k), v) for (k, v) in dct.items())
UlicEntry_renamed(dct) ==
    LET name(k) == DictGet(UlicEntry_update_to_init_map, k, k)
    IN [k2 \in {name(k) : k \in DOMAIN dct} |->
            dct[CHOOSE k \in DOMAIN dct : name(k) = k2]]

UlicEntry_from_update(dct) == UlicEntry_init(UlicEntry_renamed(dct))

\* the property cecha: the label of the qualifier
UlicEntry_cecha(e) ==
    IF e.cecha_orig.t # "str" THEN Raise("AttributeError")
    ELSE IF PyUpper(e.cecha_orig.v) \notin DOMAIN ULIC_CECHA_MAPPING THEN Raise("KeyError")
    ELSE Ok(S(ULIC_CECHA_MAPPING[PyUpper(e.cecha_orig.v)]))

\* the property nazwa
UlicEntry_nazwa(e) == clean_street_name(e.cecha_orig, e.nazwa_2, e.nazwa_1)

UlicEntry_to_dict(e) ==
    IF ~(CanInt(e.sym) /\ CanInt(e.symul) /\ CanInt(e.terc)) THEN Raise("TypeError")
    ELSE Ok([ sym |-> py_int(e.sym), symul |-> py_int(e.symul),
              cecha |-> e.cecha_orig, nazwa_1 |-> e.nazwa_1, nazwa_2 |-> e.nazwa_2,
              terc |-> py_int(e.terc) ])

\* UlicEntry.from_dict slices dct['terc']: an int cannot be sliced
UlicEntry_from_dict(dct) ==
    IF ~({"terc", "sym", "symul", "cecha", "nazwa_1"} \subseteq DOMAIN dct)
    THEN Raise("KeyError")
    ELSE IF dct["terc"].t # "str" THEN Raise("TypeError")
    ELSE IF Len(dct["terc"].v) < 7 THEN Raise("IndexError")
    ELSE UlicEntry_init(
            [ sym      |-> dct["sym"],
              sym_ul   |-> dct["symul"],
              cecha    |-> dct["cecha"],
              nazwa_1  |-> dct["nazwa_1"],
              nazwa_2  |-> nvl(DictGet(dct, "nazwa_2", PyNone), S("")),
              woj      |-> S(SubSeq(dct["terc"].v, 1, 2)),
              pow      |-> S(SubSeq(dct["terc"].v, 3, 4)),
              gmi      |-> S(SubSeq(dct["terc"].v, 5, 6)),
              rodz_gmi |-> S(SubSeq(dct["terc"].v, 7, 7)) ])

\* UlicEntry.update_from sets the attributes sym, sym_ul, cecha, nazwa_1 and
\* nazwa_2 from the true values of the record, then terc when a part of it is
\* given; cecha is a property without a setter, so setting it raises
UlicEntry_update_from(e, obj) ==
    Bind(UlicEntry_renamed(obj), LAMBDA dct :
    Bind({ attr \in {"sym", "sym_ul", "nazwa_1", "nazwa_2"} :
              PyTruthy(DictGet(dct, attr, PyNone)) }, LAMBDA set :
    IF PyTruthy(DictGet(dct, "cecha", PyNone)) THEN Raise("AttributeError") ELSE
    Bind([attr \in DOMAIN e \cup set |-> IF attr \in set THEN dct[attr] ELSE e[attr]],
         LAMBDA updated :
    IF ~(\E k \in {"woj", "pow", "gmi", "rodz_gmi"} : PyTruthy(DictGet(dct, k, PyNone)))
    THEN Ok(updated)
    ELSE IF \E k \in {"woj", "pow", "gmi", "rodz_gmi"} : DictGet(dct, k, PyNone).t # "str"
    THEN Raise("TypeError")
    ELSE Ok([updated EXCEPT !.terc = S(dct["woj"].v \o dct["pow"].v \o dct["gmi"].v
                                       \o dct["rodz_gmi"].v)]))))

----------------------------------------------------------------------------
(* UlicMultiEntry: a street with its entries in the localities it runs      *)
(* through.  The dict entries is the sequence of its items <<sym, entry>>,  *)
(* in insertion order.                                                      *)

ItemsHas(items, k) == \E i \in 1..Len(items) : PyEq(items[i][1], k)
ItemsGet(items, k) == items[CHOOSE i \in 1..Len(items) : PyEq(items[i][1], k)][2]
ItemsSet(items, k, v) ==
    IF ItemsHas(items, k)
    THEN [i \in 1..Len(items) |-> IF PyEq(items[i][1], k) THEN <<k, v>> ELSE items[i]]
    ELSE Append(items, <<k, v>>)
ItemsDel(items, k) == SelectSeq(items, LAMBDA item : ~PyEq(item[1], k))

\* the results of a list of calls: the first exception, or the list of values
RECURSIVE AllOk(_)
AllOk(results) ==
    IF results = <<>> THEN Ok(<<>>)
    ELSE IF Head(results).err # "" THEN Head(results)
    ELSE LET rest == AllOk(Tail(results))
         IN IF rest.err # "" THEN rest ELSE Ok(<<Head(results).val>> \o rest.val)

\* UlicMultiEntry(entry): symul, cecha and nazwa are those of the entry
UlicMultiEntry_init(entry) ==
    Bind(UlicEntry_cecha(entry), LAMBDA cecha :
    IF cecha.err # "" THEN cecha ELSE
    Bind(UlicEntry_nazwa(entry), LAMBDA nazwa :
    IF nazwa.err # "" THEN nazwa
    ELSE Ok([ symul |-> entry.symul, cecha |-> cecha.val, nazwa |-> nazwa.val,
              entries |-> << <<entry.sym, entry>> >> ])))

\* the property miejscowosc, simc()[self.sym].nazwa: the localities cache is
\* opened and the locality read from it.  A cache with no ready meta entry
\* raises CacheNotInitialized; the update of an expired one is not followed.
UlicEntry_miejscowosc(e) ==
    IF ~(/\ META \in DOMAIN tables
         /\ TERYT_SIMC_DB \in DOMAIN tables[META]
         /\ JsonSerializer_deserialize(tables[META][TERYT_SIMC_DB])["status"] = "ready")
    THEN Raise("CacheNotInitialized")
    ELSE IF e.sym.t # "str"
         THEN Raise(IF driver = "shelve" THEN "AttributeError" ELSE "ClientError")
    ELSE IF TERYT_SIMC_DB \notin DOMAIN tables
            \/ e.sym.v \notin DOMAIN tables[TERYT_SIMC_DB]
         THEN Raise("AttributeError")
    ELSE Ok(tables[TERYT_SIMC_DB][e.sym.v].pb.nazwa)

\* add_entry: a cecha or nazwa that differs from the street's is logged with
\* value.miejscowosc, then the entry is stored under its sym
UlicMultiEntry_add_entry(m, value) ==
    IF ~PyEq(m.symul, value.symul) THEN Raise("ValueError") ELSE
    Bind(UlicEntry_cecha(value), LAMBDA cecha :
    IF cecha.err # "" THEN cecha
    ELSE IF ~PyEq(m.cecha, cecha.val) /\ UlicEntry_miejscowosc(value).err # ""
         THEN UlicEntry_miejscowosc(value) ELSE
    Bind(UlicEntry_nazwa(value), LAMBDA nazwa :
    IF nazwa.err # "" THEN nazwa
    ELSE IF ~PyEq(m.nazwa, nazwa.val) /\ UlicEntry_miejscowosc(value).err # ""
         THEN UlicEntry_miejscowosc(value)
    ELSE Ok([m EXCEPT !.entries = ItemsSet(m.entries, value.sym, value)])))

UlicMultiEntry_get_by_sym(m, sym) ==
    IF ItemsHas(m.entries, sym) THEN Ok(ItemsGet(m.entries, sym)) ELSE Raise("KeyError")

UlicMultiEntry_remove_by_sym(m, sym) ==
    IF ItemsHas(m.entries, sym)
    THEN Ok([m EXCEPT !.entries = ItemsDel(m.entries, sym)])
    ELSE Raise("KeyError")

UlicMultiEntry_len(m) == Len(m.entries)

\* from_list, the loop: every entry of lst is added to rv
RECURSIVE UlicMultiEntry_from_list_add(_, _)
UlicMultiEntry_from_list_add(rv, lst) ==
    IF rv.err # "" \/ lst = <<>> THEN rv
    ELSE UlicMultiEntry_from_list_add(UlicMultiEntry_add_entry(rv.val, Head(lst)),
                                      Tail(lst))

UlicMultiEntry_from_list(lst) ==
    IF Len(lst) < 1 THEN Raise("ValueError")
    ELSE IF Len(lst) > 1
         THEN UlicMultiEntry_from_list_add(UlicMultiEntry_init(lst[1]), lst)
    ELSE UlicMultiEntry_init(lst[1])

UlicMultiEntry_cache_key(m) == m.symul

\* to_dict that does not look at the street symbols of the entries
UlicMultiEntry_to_dict_unchecked(m) ==
    IF ~CanInt(m.symul) THEN Raise("TypeError") ELSE
    Bind(AllOk([i \in 1..Len(m.entries) |-> UlicEntry_to_dict(m.entries[i][2])]),
         LAMBDA entries :
    IF entries.err # "" THEN entries
    ELSE Ok([ symul |-> py_int(m.symul), cecha |-> m.cecha, nazwa |-> m.nazwa,
              entries |-> entries.val ]))

\* to_dict: every entry is of the street; symul as int, the entries' to_dict
UlicMultiEntry_to_dict(m) ==
    IF \E i \in 1..Len(m.entries) : ~PyEq(m.entries[i][2].symul, m.symul)
    THEN Raise("ValueError")
    ELSE IF ~CanInt(m.symul) THEN Raise("TypeError") ELSE
    Bind(AllOk([i \in 1..Len(m.entries) |-> UlicEntry_to_dict(m.entries[i][2])]),
         LAMBDA entries :
    IF entries.err # "" THEN entries
    ELSE Ok([ symul |-> py_int(m.symul), cecha |-> m.cecha, nazwa |-> m.nazwa,
              entries |-> entries.val ]))

\* from_dict: from_list of the entries' from_dict, then the three assertions
UlicMultiEntry_from_dict(dct) ==
    IF "entries" \notin DOMAIN dct THEN Raise("KeyError") ELSE
    Bind(AllOk([i \in 1..Len(dct["entries"]) |->
                   UlicEntry_from_dict(dct["entries"][i])]), LAMBDA lst :
    IF lst.err # "" THEN lst ELSE
    Bind(UlicMultiEntry_from_list(lst.val), LAMBDA ret :
    IF ret.err # "" THEN ret
    ELSE IF ~CanInt(ret.val.symul) THEN Raise("TypeError")
    ELSE IF ~({"symul", "cecha", "nazwa"} \subseteq DOMAIN dct) THEN Raise("KeyError")
    ELSE IF ~PyEq(py_int(ret.val.symul), dct["symul"]) THEN Raise("AssertionError")
    ELSE IF ~PyEq(ret.val.cecha, dct["cecha"]) THEN Raise("AssertionError")
    ELSE IF ~PyEq(ret.val.nazwa, dct["nazwa"]) THEN Raise("AssertionError")
    ELSE ret))

----------------------------------------------------------------------------
(* ToFromJsonSerializer of a catalog's entry class *)

\* the entity _get_dict makes of a row of catalog c
entry_init(c, row) ==
    IF c = "simc" THEN SimcEntry_init(row)
    ELSE IF c = "terc" THEN TercEntry_init(row)
    ELSE UlicEntry_init(row_as_dict(row)).val

cache_key(c, e) ==
    IF c = "simc" THEN SimcEntry_cache_key(e)
    ELSE IF c = "terc" THEN TercEntry_cache_key(e)
    ELSE UlicMultiEntry_cache_key(e)

to_dict(c, e) ==
    IF c = "simc" THEN SimcEntry_to_dict(e)
    ELSE IF c = "terc" THEN TercEntry_to_dict(e)
    ELSE UlicMultiEntry_to_dict(e)

from_dict(c, dct) ==
    IF c = "simc" THEN SimcEntry_from_dict(dct)
    ELSE IF c = "terc" THEN TercEntry_from_dict(dct)
    ELSE UlicMultiEntry_from_dict(dct)

ToFromJsonSerializer_serialize(c, e) ==
    LET d == to_dict(c, e) IN
    IF d.err # "" THEN d ELSE Ok(ProtoSerializer_serialize(d.val))

ToFromJsonSerializer_deserialize(c, data) ==
    from_dict(c, ProtoSerializer_deserialize(data))

----------------------------------------------------------------------------
(* Serializers: "json" is JsonSerializer, a catalog is the                  *)
(* ToFromJsonSerializer of its entry class                                  *)

Serializer_serialize(ser, value) ==
    IF ser = "json" THEN Ok(JsonSerializer_serialize(value))
    ELSE ToFromJsonSerializer_serialize(ser, value)

Serializer_deserialize(ser, data) ==
    IF ser = "json" THEN Ok(JsonSerializer_deserialize(data))
    ELSE ToFromJsonSerializer_deserialize(ser, data)

\* truth value of serialized bytes: false when empty (a message with no field set)
BytesTruthy(data) == IF "pb" \in DOMAIN data THEN DOMAIN data.pb # {} ELSE TRUE

----------------------------------------------------------------------------
(* Tables of the storage drivers.  A table is a function from the keys      *)
(* present to the stored payloads.                                          *)

EmptyTable == <<>>

\* the content of table name (no content when the table does not exist)
Table(name) == IF name \in DOMAIN tables THEN tables[name] ELSE EmptyTable

\* the table t without key k
Without(t, k) == [x \in DOMAIN t \ {k} |-> t[x]]

\* ShelveCache.get: the deserialized value, the default when nothing is stored
\* and the default is true, or None; the serializer's exception when it raises.
\* deserialized is the outcome of self.serializer.deserialize on the stored
\* bytes t[name], read only when there are such bytes.
ShelveCache_get(deserialized, t, name, default) ==
    IF name \in DOMAIN t /\ BytesTruthy(t[name])
    THEN IF deserialized.err # "" THEN deserialized ELSE Ok(Some(deserialized.val))
    ELSE IF TruthyOptDict(default) THEN Ok(default) ELSE Ok(None)

DynamoCache_get(deserialized, t, name, default) ==
    IF name \in DOMAIN t /\ BytesTruthy(t[name])
    THEN IF deserialized.err # "" THEN deserialized ELSE Ok(Some(deserialized.val))
    ELSE IF TruthyOptDict(default) THEN Ok(default) ELSE Ok(None)

Cache_get(deserialized, t, name, default) ==
    IF driver = "shelve" THEN ShelveCache_get(deserialized, t, name, default)
    ELSE DynamoCache_get(deserialized, t, name, default)

\* ShelveCache.add / DynamoCache.add: the table after the call in val, or the
\* serializer's exception.  serialized is the outcome of
\* self.serializer.serialize(value).
ShelveCache_add(serialized, t, name) ==
    IF serialized.err # "" THEN serialized ELSE Ok((name :> serialized.val) @@ t)

DynamoCache_add(serialized, t, name) ==
    IF serialized.err # "" THEN serialized ELSE Ok((name :> serialized.val) @@ t)

Cache_add(serialized, t, name) ==
    IF driver = "shelve" THEN ShelveCache_add(serialized, t, name)
    ELSE DynamoCache_add(serialized, t, name)

\* ShelveCache.delete: del of a key that is not there raises KeyError
ShelveCache_delete(t, name) ==
    IF name \in DOMAIN t THEN Ok(Without(t, name)) ELSE Raise("KeyError")

\* DynamoCache.delete: delete_item succeeds whether or not the key is there
DynamoCache_delete(t, name) == Ok(Without(t, name))

Cache_delete(t, name) ==
    IF driver = "shelve" THEN ShelveCache_delete(t, name)
    ELSE DynamoCache_delete(t, name)

\* the keys of a table in the order the storage gives them
RECURSIVE KeysOf(_)
KeysOf(t) ==
    IF DOMAIN t = {} THEN <<>>
    ELSE LET k == CHOOSE x \in DOMAIN t : TRUE IN <<k>> \o KeysOf(Without(t, k))

\* ShelveCache.keys: self.shelve.keys() is called and its result dropped, the
\* method returns None
ShelveCache_keys(t) == Ok(None)

\* DynamoCache.keys: the key of every item of one scan
DynamoCache_keys(t) == Ok(Some(KeysOf(t)))

Cache_keys(t) ==
    IF driver = "shelve" THEN ShelveCache_keys(t) ELSE DynamoCache_keys(t)

\* the meta table after self.meta.add(name, value)
meta_add(name, value) ==
    Cache_add(Ok(JsonSerializer_serialize(value)), Table(META), name).val

\* self.meta.get(name, default)
meta_get(name, default) ==
    Cache_get(Ok(JsonSerializer_deserialize(Table(META)[name])),
              Table(META), name, default).val

----------------------------------------------------------------------------
(* Storage drivers *)

\* ShelveCacheDriver.get_table: shelve.open(flag='w') fails when there is no file
ShelveCacheDriver_get_table(name) ==
    IF name \in DOMAIN tables THEN Ok(Some(name)) ELSE Raise("CacheNotInitialized")

DynamoCacheDriver_get_table(name) == Ok(Some(name))

CacheDriver_get_table(name) ==
    IF driver = "shelve" THEN ShelveCacheDriver_get_table(name)
    ELSE DynamoCacheDriver_get_table(name)

\* ShelveCacheDriver.create: shelve.open(flag='n') always makes a new, empty file.
\* tbls is the tables after the meta entry was written.
ShelveCacheDriver_create(tbls, name) ==
    [tbl |-> (name :> EmptyTable) @@ tbls, cnt |-> itemCount]

\* DynamoCacheDriver.create: the table is deleted and created again only when
\* its item_count is positive
DynamoCacheDriver_create(tbls, name) ==
    IF itemCount[name] > 0
    THEN [tbl |-> (name :> EmptyTable) @@ tbls, cnt |-> (name :> 0) @@ itemCount]
    ELSE [tbl |-> tbls, cnt |-> itemCount]

CacheDriver_create(tbls, name) ==
    IF driver = "shelve" THEN ShelveCacheDriver_create(tbls, name)
    ELSE DynamoCacheDriver_create(tbls, name)

----------------------------------------------------------------------------
(* CacheManager *)

\* get_cache reporting expiry, not absence, for an entry that is not ready
get_cache_unready_expired(name, version) ==
    IF name = META THEN Raise("ValueError")
    ELSE LET cache == meta_get(name, None) IN
         IF ~TruthyOptDict(cache) THEN Raise("CacheNotInitialized")
         ELSE IF Val(cache)["status"] # "ready" THEN Raise("CacheExpired")
         ELSE IF (TruthyOptInt(version) /\ Val(cache)["version"] >= Val(version))
                 \/ ~TruthyOptInt(version)
              THEN CacheDriver_get_table(name)
              ELSE Raise("CacheExpired")

\* get_cache asking for a stored version strictly above the requested one
get_cache_strict(name, version) ==
    IF name = META THEN Raise("ValueError")
    ELSE LET cache == meta_get(name, None) IN
         IF ~TruthyOptDict(cache) THEN Raise("CacheNotInitialized")
         ELSE IF Val(cache)["status"] # "ready" THEN Raise("CacheNotInitialized")
         ELSE IF (TruthyOptInt(version) /\ Val(cache)["version"] > Val(version))
                 \/ ~TruthyOptInt(version)
              THEN CacheDriver_get_table(name)
              ELSE Raise("CacheExpired")

\* get_cache taking the reserved name as any other
get_cache_any_name(name, version) ==
    LET cache == meta_get(name, None) IN
    IF ~TruthyOptDict(cache) THEN Raise("CacheNotInitialized")
    ELSE IF Val(cache)["status"] # "ready" THEN Raise("CacheNotInitialized")
    ELSE IF (TruthyOptInt(version) /\ Val(cache)["version"] >= Val(version))
            \/ ~TruthyOptInt(version)
         THEN CacheDriver_get_table(name)
         ELSE Raise("CacheExpired")

\* the outcome of CacheManager.get_cache(name, version): the name of the table
\* the returned Cache is bound to, or the exception
get_cache(name, version) ==
    IF name = META THEN Raise("ValueError")
    ELSE LET cache == meta_get(name, None) IN
         IF ~TruthyOptDict(cache) THEN Raise("CacheNotInitialized")
         ELSE IF Val(cache)["status"] # "ready" THEN Raise("CacheNotInitialized")
         ELSE IF (TruthyOptInt(version) /\ Val(cache)["version"] >= Val(version))
                 \/ ~TruthyOptInt(version)
              THEN CacheDriver_get_table(name)
              ELSE Raise("CacheExpired")

\* the outcome of CacheManager.version(name)
version(name) ==
    LET d == meta_get(name, Some(EmptyDict)) IN
    IF IsNone(d) THEN Raise("AttributeError")
    ELSE Ok(Some(DictGet(Val(d), "version", -1)))

\* an entry that create_cache would write as ready
CreatingEntry_ready == [status |-> "ready", updated |-> 0, version |-> 0]

\* the meta entry CacheManager.create_cache writes
CreatingEntry == [status |-> "creating", updated |-> 0]

\* a create_cache that starts the meta table anew with the entry of name
create_cache_new_meta(name) ==
    CacheDriver_create(
        (META :> Cache_add(Ok(JsonSerializer_serialize(CreatingEntry)), EmptyTable, name).val)
            @@ tables, name)

\* the tables and item counts after CacheManager.create_cache(name), name not "meta"
create_cache(name) ==
    CacheDriver_create((META :> meta_add(name, CreatingEntry)) @@ tables, name)

\* mark_ready keeping the status of desc
ReadyEntry_keeps_status(desc, v) ==
    DictSet(desc, [updated |-> time_time(now), version |-> v])

\* the meta entry CacheManager.mark_ready writes over desc
ReadyEntry(desc, v) ==
    DictSet(desc, [status |-> "ready", updated |-> time_time(now), version |-> v])

\* the meta table after CacheManager.mark_ready(name, v) on an existing entry
mark_ready(name, v) ==
    meta_add(name, ReadyEntry(Val(meta_get(name, None)), v))

\* the meta entry of name as get_cache reads it, and its status
Entry(name) == meta_get(name, None)
Status(name) == IF IsNone(Entry(name)) THEN "absent" ELSE Val(Entry(name))["status"]
\* the stored version of an entry that has one
StoredVersion(name) == Val(Entry(name))["version"]

----------------------------------------------------------------------------
(* The caller's calls to the cache manager *)

\* what the caller knows of its last call: the operation, the name and the
\* version it passed (none when the operation takes no version, or none was
\* passed), and the exception raised ("" when the call returned)
CallV(op, name, v, res) == [op |-> op, name |-> name, version |-> v, err |-> res.err]
Call(op, name, res) == CallV(op, name, None, res)

\* get_cache making the table of the name anew
Do_get_cache_creates(name, v) ==
    /\ run.pc = "idle"
    /\ last' = CallV("get_cache", name, v, get_cache(name, v))
    /\ tables' = (name :> EmptyTable) @@ tables
    /\ UNCHANGED <<driver, throughput, itemCount, now, engVars>>

Do_get_cache(name, v) ==
    /\ run.pc = "idle"
    /\ last' = CallV("get_cache", name, v, get_cache(name, v))
    /\ UNCHANGED <<driver, throughput, tables, itemCount, now, engVars>>

Do_version(name) ==
    /\ run.pc = "idle"
    /\ last' = Call("version", name, version(name))
    /\ UNCHANGED <<driver, throughput, tables, itemCount, now, engVars>>

Do_create_cache(name) ==
    /\ run.pc = "idle"
    /\ IF name = META
       THEN /\ last' = Call("create_cache", name, Raise("ValueError"))
            /\ UNCHANGED <<tables, itemCount>>
       ELSE /\ tables' = create_cache(name).tbl
            /\ itemCount' = create_cache(name).cnt
            /\ last' = Call("create_cache", name, Ok(Some(name)))
    /\ UNCHANGED <<driver, throughput, now, engVars>>

\* mark_ready writing an entry for a name that has none
Do_mark_ready_creates(name, v) ==
    /\ run.pc = "idle"
    /\ tables' = (META :> meta_add(name, ReadyEntry(EmptyDict, v))) @@ tables
    /\ last' = CallV("mark_ready", name, Some(v), Ok(None))
    /\ UNCHANGED <<driver, throughput, itemCount, now, engVars>>

Do_mark_ready(name, v) ==
    /\ run.pc = "idle"
    /\ IF IsNone(meta_get(name, None))
       THEN /\ last' = CallV("mark_ready", name, Some(v), Raise("TypeError"))
            /\ UNCHANGED tables
       ELSE /\ tables' = (META :> mark_ready(name, v)) @@ tables
            /\ last' = CallV("mark_ready", name, Some(v), Ok(None))
    /\ UNCHANGED <<driver, throughput, itemCount, now, engVars>>

\* the caller holds the Cache its last call returned, and keeps it while it
\* calls the Cache's methods
HoldsCache(name) ==
    /\ last.name = name
    /\ \/ last.op \in {"get_cache", "create_cache"} /\ last.err = ""
       \/ last.op \in {"Cache.add", "Cache.delete", "Cache.keys", "Cache.reload"}

\* the write capacity DynamoCache.reload asks for while it writes
RELOAD_WRITE_CAPACITY == 10

\* the keys and values of the kind dictionary (__wmrodz_create: rm -> nazwa_rm)
DictKeys == {"96"}
DictValues == {"wies"}

\* cache.add(key, value) on the Cache held, with the default JsonSerializer
Do_add(name, key, value) ==
    /\ run.pc = "idle"
    /\ HoldsCache(name)
    /\ tables' = (name :> Cache_add(Ok(JsonSerializer_serialize(value)),
                                   Table(name), key).val) @@ tables
    /\ last' = Call("Cache.add", name, Ok(None))
    /\ UNCHANGED <<driver, throughput, itemCount, now, engVars>>

\* cache.delete(key) on the Cache held
Do_delete(name, key) ==
    /\ run.pc = "idle"
    /\ HoldsCache(name)
    /\ LET r == Cache_delete(Table(name), key) IN
       /\ tables' = IF r.err = "" THEN (name :> r.val) @@ tables ELSE tables
       /\ last' = Call("Cache.delete", name, r)
    /\ UNCHANGED <<driver, throughput, itemCount, now, engVars>>

\* cache.keys() on the Cache held
Do_keys(name) ==
    /\ run.pc = "idle"
    /\ HoldsCache(name)
    /\ last' = Call("Cache.keys", name, Cache_keys(Table(name)))
    /\ UNCHANGED <<driver, throughput, tables, itemCount, now, engVars>>

----------------------------------------------------------------------------
(* Entries of a catalog's cache: Cache.get/add/delete as the sync engine    *)
(* calls them, with a key that is an attribute of an entity                 *)

\* what a driver raises for a key that is not a str: shelve calls
\* key.encode(), DynamoDB rejects a key of another type than the key schema's
BadKey == IF driver = "shelve" THEN "AttributeError" ELSE "ClientError"

entry_get(ser, t, key) ==
    IF key.t # "str" THEN Raise(BadKey)
    ELSE Cache_get(Serializer_deserialize(ser, t[key.v]), t, key.v, None)

\* the value is serialized before the key is used
entry_add_key(key, r) == IF r.err = "" /\ key.t # "str" THEN Raise(BadKey) ELSE r

entry_add(ser, t, key, value) ==
    entry_add_key(key, Cache_add(Serializer_serialize(ser, value), t,
                                 IF key.t = "str" THEN key.v ELSE ""))

entry_delete(t, key) ==
    IF key.t # "str" THEN Raise(BadKey) ELSE Cache_delete(t, key.v)

----------------------------------------------------------------------------
(* The registry's catalogs, as the rows _row_as_dict makes of their XML     *)

SimcRows ==
    LET base == [woj |-> "04", pow |-> "02", gmi |-> "01", rodz_gmi |-> "1", rm |-> "96"]
    IN { [nazwa |-> "Brodnica", sym |-> "0982954", sympod |-> "0982954"] @@ base,
         [nazwa |-> "Nowa", sym |-> "0982954", sympod |-> "0982954"] @@ base,
         [nazwa |-> "Karbowo", sym |-> "0982955", sympod |-> "0982954"] @@ base }

TercRows ==
    { [woj |-> "02", nazwa |-> "DOLNOSLASKIE"],
      [woj |-> "02", pow |-> "14", gmi |-> "01", rodz |-> "1", nazwa |-> "Przyklad"],
      [woj |-> "02", pow |-> "14", gmi |-> "01", rodz |-> "1", nazwa |-> "Nowy"] }

\* one street, 18 Stycznia, in two localities
UlicRows ==
    LET base == [woj |-> "04", pow |-> "02", gmi |-> "01", rodz_gmi |-> "1",
                 sym_ul |-> "21447", cecha |-> "ul.", nazwa_1 |-> "Stycznia",
                 nazwa_2 |-> "18"]
    IN { [sym |-> "0982954"] @@ base, [sym |-> "0982955"] @@ base }

Rows(c) == IF c = "simc" THEN SimcRows ELSE IF c = "terc" THEN TercRows ELSE UlicRows

\* what identifies a row in its catalog
RowKey(c, row) ==
    IF c = "ulic" THEN <<row.sym, row.sym_ul>> ELSE cache_key(c, entry_init(c, row)).v

SeqsUpTo(set, n) == UNION {[1..k -> set] : k \in 0..n}

\* the catalogs the registry can publish: rows with distinct business keys
Snapshots(c) ==
    { rows \in SeqsUpTo(Rows(c), MaxRows) :
        \A i, j \in 1..Len(rows) :
            RowKey(c, rows[i]) = RowKey(c, rows[j]) => i = j }

\* a downloaded payload: the rows of a well-formed document, or a document
\* ET.fromstring rejects
Payload(rows) == [wellformed |-> TRUE, rows |-> rows]
Malformed == [wellformed |-> FALSE, rows |-> <<>>]

----------------------------------------------------------------------------
(* BaseTerytCache *)

Path(c) ==
    IF c = "simc" THEN TERYT_SIMC_DB
    ELSE IF c = "terc" THEN TERYT_TERYT_DB
    ELSE TERYT_ULIC_DB

\* _int_to_datetime: datetime.date.fromtimestamp gives the local date
int_to_datetime(x) == (x + tz) \div Day
\* _date_to_int: calendar.timegm of the date's midnight
date_to_int(d) == d * Day

\* the instance's fields after cache_version(); its _version is what is returned
\* a cache_version that asks the registry on every call
cache_version_probing ==
    [version_ttl |-> time_time(now) + VERSION_TTL, version |-> date_to_int(remoteDay)]

cache_version ==
    IF time_time(now) > eng.version_ttl
    THEN [version_ttl |-> time_time(now) + VERSION_TTL, version |-> date_to_int(remoteDay)]
    ELSE eng

Idle == [pc |-> "idle"]

\* the fields of a new instance (__init__); every caller in the program makes
\* an instance for one call: TerytCache().create_cache(), SimcCache().get()
NewInstance == [version_ttl |-> 0, version |-> 0]

\* _data_to_cache_contents: dict((x.cache_key, x) for x in _get_dict(data, cls)),
\* as the sequence of its items
RECURSIVE DictItems(_, _)
DictItems(c, rows) ==
    IF rows = <<>> THEN <<>>
    ELSE LET n == Len(rows)
             before == DictItems(c, SubSeq(rows, 1, n - 1))
             x == entry_init(c, rows[n])
             k == cache_key(c, x)
         IN IF \E i \in 1..Len(before) : before[i][1] = k
            THEN [i \in 1..Len(before) |->
                    IF before[i][1] = k THEN <<k, x>> ELSE before[i]]
            ELSE Append(before, <<k, x>>)

\* groupby(lst, lambda x: x.symul), as the sequence of its items
RECURSIVE groupby_symul(_)
groupby_symul(lst) ==
    IF lst = <<>> THEN <<>>
    ELSE LET n == Len(lst)
             rv == groupby_symul(SubSeq(lst, 1, n - 1))
             k == lst[n].symul
         IN ItemsSet(rv, k, Append(IF ItemsHas(rv, k) THEN ItemsGet(rv, k) ELSE <<>>,
                                   lst[n]))

\* UlicCache._data_to_cache_contents: one UlicMultiEntry for each street
UlicCache_data_to_cache_contents(rows) ==
    LET grouped == groupby_symul([i \in 1..Len(rows) |-> entry_init("ulic", rows[i])])
    IN [i \in 1..Len(grouped) |->
            <<grouped[i][1], UlicMultiEntry_from_list(grouped[i][2]).val>>]

data_to_cache_contents(c, data) ==
    IF c = "ulic" THEN UlicCache_data_to_cache_contents(data.rows)
    ELSE DictItems(c, data.rows)

\* Cache.reload(contents) on table t: add of every item in turn; the first
\* exception ends the loop
RECURSIVE Cache_reload(_, _, _)
Cache_reload(ser, t, contents) ==
    IF contents = <<>> THEN Ok(t)
    ELSE LET r == entry_add(ser, t, Head(contents)[1], Head(contents)[2])
         IN IF r.err # "" THEN r ELSE Cache_reload(ser, r.val, Tail(contents))

Returned(op, err) == [op |-> op, name |-> Path(cat), version |-> None, err |-> err]
\* the err of a call that has not returned yet
Running == "..."

\* create_cache, lines 612-613: the version is probed and the catalog downloaded
BaseTerytCache_create_cache_download ==
    /\ run.pc = "idle"
    /\ \E data \in {Payload(rows) : rows \in Snapshots(cat)} \cup {Malformed} :
          run' = [pc |-> "cc_create", version |-> cache_version.version, data |-> data]
    /\ eng' = cache_version
    /\ last' = Returned("BaseTerytCache.create_cache", Running)
    /\ UNCHANGED <<driver, throughput, tables, itemCount, now, cat, tz, remoteDay>>

\* the registry cannot be reached for the download
BaseTerytCache_create_cache_download_fails ==
    /\ run.pc = "idle"
    /\ eng' = NewInstance
    /\ last' = Returned("BaseTerytCache.create_cache", "TransportError")
    /\ UNCHANGED <<driver, throughput, tables, itemCount, now, cat, tz, remoteDay, run>>

\* create_cache, line 614: get_cache_manager().create_cache(self.path)
BaseTerytCache_create_cache_create ==
    /\ run.pc = "cc_create"
    /\ tables' = create_cache(Path(cat)).tbl
    /\ itemCount' = create_cache(Path(cat)).cnt
    /\ run' = [run EXCEPT !.pc = "cc_decode"]
    /\ UNCHANGED <<driver, throughput, now, last, cat, tz, remoteDay, eng>>

\* create_cache, line 616: the argument of reload, _data_to_cache_contents(data)
BaseTerytCache_create_cache_decode ==
    /\ run.pc = "cc_decode"
    /\ IF run.data.wellformed
       THEN /\ run' = [pc |-> "cc_reload", version |-> run.version,
                       contents |-> data_to_cache_contents(cat, run.data),
                       pending |-> data_to_cache_contents(cat, run.data)]
            /\ UNCHANGED last
       ELSE /\ run' = Idle
            /\ last' = Returned("BaseTerytCache.create_cache", "ParseError")
    /\ eng' = IF run.data.wellformed THEN eng ELSE NewInstance
    /\ UNCHANGED <<driver, throughput, tables, itemCount, now, cat, tz, remoteDay>>

\* Cache.reload: one add of the loop over contents.items()
BaseTerytCache_create_cache_reload_add ==
    /\ run.pc = "cc_reload"
    /\ run.pending # <<>>
    /\ LET item == Head(run.pending)
           r == entry_add(cat, Table(Path(cat)), item[1], item[2])
       IN IF r.err = ""
          THEN /\ tables' = (Path(cat) :> r.val) @@ tables
               /\ run' = [run EXCEPT !.pending = Tail(run.pending)]
               /\ UNCHANGED last
          ELSE /\ run' = Idle
               /\ last' = Returned("BaseTerytCache.create_cache", r.err)
               /\ UNCHANGED tables
    /\ eng' = IF run'.pc = "idle" THEN NewInstance ELSE eng
    /\ UNCHANGED <<driver, throughput, itemCount, now, cat, tz, remoteDay>>

\* the storage fails or the process is interrupted during reload
BaseTerytCache_create_cache_reload_fails ==
    /\ run.pc = "cc_reload"
    /\ run' = Idle
    /\ last' = Returned("BaseTerytCache.create_cache", "Interrupted")
    /\ eng' = NewInstance
    /\ UNCHANGED <<driver, throughput, tables, itemCount, now, cat, tz, remoteDay>>

\* create_cache, line 617: mark_ready(self.path, version) after reload returned
BaseTerytCache_create_cache_mark_ready ==
    /\ run.pc = "cc_reload"
    /\ run.pending = <<>>
    /\ tables' = (META :> mark_ready(Path(cat), run.version)) @@ tables
    /\ run' = Idle
    /\ last' = Returned("BaseTerytCache.create_cache", "")
    /\ eng' = NewInstance
    /\ UNCHANGED <<driver, throughput, itemCount, now, cat, tz, remoteDay>>

----------------------------------------------------------------------------
(* Change records of a registry update: the TypKorekty of a <zmiana> and    *)
(* what update_record_to_dict makes of its ...Przed and ...Po elements      *)
(* (the text of an element, None for an empty one)                          *)
(* The records carry the keys from_dict reads (terc, nazwa, sym; woj,       *)
(* powiat, gmi, rodz, nazwadod, nazwa).                                     *)

Zmiana(op, przed, po) == [op |-> op, przed |-> przed, po |-> po]

SimcChanges ==
    LET brodnica == [terc |-> S("0402011"), rm |-> S("96"), nazwa |-> S("Brodnica"),
                     sym |-> S("0982954")]
        karbowo == [terc |-> S("0402011"), rm |-> S("96"), nazwa |-> S("Karbowo"),
                    sym |-> S("0982955")]
        unchanged == [terc |-> PyNone, rm |-> PyNone, nazwa |-> PyNone, sym |-> PyNone]
    IN { Zmiana("D", EmptyDict, karbowo),
         Zmiana("U", brodnica, EmptyDict),
         Zmiana("Z", brodnica, [unchanged EXCEPT !.nazwa = S("Nowa")]),
         Zmiana("P", karbowo, [unchanged EXCEPT !.terc = S("0402022")]),
         Zmiana("X", brodnica, unchanged) }

TercChanges ==
    LET przyklad == [woj |-> S("02"), powiat |-> S("14"), gmi |-> S("01"),
                     rodz |-> S("1"), nazwadod |-> S("gmina miejska"),
                     nazwa |-> S("Przyklad")]
        unchanged == [woj |-> PyNone, powiat |-> PyNone, gmi |-> PyNone,
                      rodz |-> PyNone, nazwadod |-> PyNone, nazwa |-> PyNone]
    IN { Zmiana("D", EmptyDict, przyklad),
         Zmiana("U", przyklad, EmptyDict),
         Zmiana("M", przyklad, [unchanged EXCEPT !.nazwa = S("Nowy")]),
         Zmiana("X", przyklad, unchanged) }

\* street records carry the fields _init_to_update_map names
UlicChanges ==
    LET in954 == [woj |-> S("04"), pow |-> S("02"), gmi |-> S("01"), rodz |-> S("1"),
                  identyfikatormiejscowosci |-> S("0982954"),
                  identyfikatornazwyulicy |-> S("21447"), cecha |-> S("ul."),
                  nazwa1 |-> S("Stycznia"), nazwa2 |-> S("18")]
        in955 == [in954 EXCEPT !.identyfikatormiejscowosci = S("0982955")]
        unchanged == [k \in DOMAIN in954 |-> PyNone]
    IN { Zmiana("D", unchanged, in954),
         Zmiana("D", unchanged, in955),
         Zmiana("U", in954, unchanged),
         Zmiana("U", in955, unchanged),
         Zmiana("M", in954, [unchanged EXCEPT !.nazwa1 = S("Lutego")]),
         Zmiana("M", in954, [unchanged EXCEPT !.identyfikatornazwyulicy = S("21448")]),
         Zmiana("Z", in954, [unchanged EXCEPT !.nazwa1 = S("Lutego")]),
         Zmiana("Z", in954, [unchanged EXCEPT !.identyfikatornazwyulicy = S("21448")]) }

Changes(c) ==
    IF c = "simc" THEN SimcChanges ELSE IF c = "terc" THEN TercChanges ELSE UlicChanges

\* the updates the registry can return
Deltas(c) == SeqsUpTo(Changes(c), MaxDelta)

\* change records that give an entry another identifier: a locality gets a new
\* sym, a unit another rodz
SimcKeyChanges ==
    LET brodnica == [terc |-> S("0402011"), rm |-> S("96"), nazwa |-> S("Brodnica"),
                     sym |-> S("0982954")]
        unchanged == [terc |-> PyNone, rm |-> PyNone, nazwa |-> PyNone, sym |-> PyNone]
    IN { Zmiana("Z", brodnica, [unchanged EXCEPT !.sym = S("0982956")]) }

TercKeyChanges ==
    LET przyklad == [woj |-> S("02"), powiat |-> S("14"), gmi |-> S("01"),
                     rodz |-> S("1"), nazwadod |-> S("gmina miejska"),
                     nazwa |-> S("Przyklad")]
        unchanged == [woj |-> PyNone, powiat |-> PyNone, gmi |-> PyNone,
                      rodz |-> PyNone, nazwadod |-> PyNone, nazwa |-> PyNone]
    IN { Zmiana("M", przyklad, [unchanged EXCEPT !.rodz = S("2")]),
         Zmiana("P", przyklad, [unchanged EXCEPT !.powiat = S("15")]) }

KeyChanges(c) == IF c = "simc" THEN SimcKeyChanges ELSE TercKeyChanges

\* the updates of a registry that also changes identifiers
RekeyingDeltas(c) == SeqsUpTo(Changes(c) \cup KeyChanges(c), MaxDelta)

----------------------------------------------------------------------------
(* Change handlers.  A handler's outcome: the exception it raised ("" when  *)
(* it returned) and the table as it left it.                                *)

Done(t) == [err |-> "", tbl |-> t]
Fail(e, t) == [err |-> e, tbl |-> t]

\* SimcEntry.update_from: the attributes of e with the true values of new
SimcEntry_update_from(e, new) ==
    [attr \in DOMAIN e |->
        IF PyTruthy(DictGet(new, attr, PyNone)) THEN new[attr] ELSE e[attr]]

\* a handler ends with a call of the cache: it raises what the call raised,
\* or returns with the table the call left
Outcome(r, t) == IF r.err # "" THEN Fail(r.err, t) ELSE Done(r.val)

\* _handle_d: the entity read from the after-fields is added under its sym
SimcCache_handle_d(ser, t, obj) ==
    Bind(SimcEntry_from_dict(obj.po), LAMBDA new :
    IF new.err # "" THEN Fail(new.err, t)
    ELSE Outcome(entry_add(ser, t, new.val.sym, new.val), t))

\* _handle_u: the sym of the before-fields is deleted
SimcCache_handle_u(ser, t, obj) ==
    Bind(SimcEntry_from_dict(obj.przed), LAMBDA old :
    IF old.err # "" THEN Fail(old.err, t)
    ELSE Outcome(entry_delete(t, old.val.sym), t))

\* _handle_z: the entry at the sym of the before-fields is updated from the
\* after-fields; when its sym differs from the old one the old key is deleted;
\* the entry is added under its sym
SimcCache_handle_z(ser, t, obj) ==
    Bind(SimcEntry_from_dict(obj.przed), LAMBDA old :
    IF old.err # "" THEN Fail(old.err, t) ELSE
    Bind(entry_get(ser, t, old.val.sym), LAMBDA got :
    IF got.err # "" THEN Fail(got.err, t)
    ELSE IF IsNone(got.val) THEN Fail("ValueError", t) ELSE
    Bind(SimcEntry_update_from(Val(got.val), obj.po), LAMBDA cache_entry :
    Bind(IF ~PyEq(old.val.sym, cache_entry.sym) THEN entry_delete(t, old.val.sym)
         ELSE Ok(t), LAMBDA del :
    IF del.err # "" THEN Fail(del.err, t)
    ELSE Outcome(entry_add(ser, del.val, cache_entry.sym, cache_entry), del.val)))))

SimcCache_handle_p(ser, t, obj) == SimcCache_handle_z(ser, t, obj)

\* TercEntry.update_from sets the attributes woj, pow, rodz, nazwadod, nazwa
TercEntry_update_from(e, other) ==
    LET set == { attr \in {"woj", "pow", "rodz", "nazwadod", "nazwa"} :
                    PyTruthy(DictGet(other, attr, PyNone)) }
    IN [attr \in DOMAIN e \cup set |-> IF attr \in set THEN other[attr] ELSE e[attr]]

TercCache_handle_d(ser, t, obj) ==
    Bind(TercEntry_from_dict(obj.po), LAMBDA new :
    IF new.err # "" THEN Fail(new.err, t)
    ELSE Outcome(entry_add(ser, t, TercEntry_terc(new.val), new.val), t))

TercCache_handle_u(ser, t, obj) ==
    Bind(TercEntry_from_dict(obj.przed), LAMBDA old :
    IF old.err # "" THEN Fail(old.err, t)
    ELSE Outcome(entry_delete(t, TercEntry_terc(old.val)), t))

TercCache_handle_m(ser, t, obj) ==
    Bind(TercEntry_from_dict(obj.przed), LAMBDA old :
    IF old.err # "" THEN Fail(old.err, t) ELSE
    Bind(entry_get(ser, t, TercEntry_terc(old.val)), LAMBDA got :
    IF got.err # "" THEN Fail(got.err, t)
    ELSE IF IsNone(got.val) THEN Fail("ValueError", t) ELSE
    Bind(TercEntry_update_from(Val(got.val), obj.po), LAMBDA cache_entry :
    Bind(IF ~PyEq(TercEntry_terc(old.val), TercEntry_terc(cache_entry))
         THEN entry_delete(t, TercEntry_terc(old.val)) ELSE Ok(t), LAMBDA del :
    IF del.err # "" THEN Fail(del.err, t)
    ELSE Outcome(entry_add(ser, del.val, TercEntry_terc(cache_entry), cache_entry),
                 del.val)))))

\* UlicCache._handle_d: the entity of the after-fields is added to the
\* street's entry when there is one (an entry with no entity is false), and
\* stored as a new entry otherwise
UlicCache_handle_d(ser, t, obj) ==
    Bind(UlicEntry_from_update(obj.po), LAMBDA to :
    IF to.err # "" THEN Fail(to.err, t) ELSE
    Bind(entry_get(ser, t, to.val.symul), LAMBDA cache_entry :
    IF cache_entry.err # "" THEN Fail(cache_entry.err, t) ELSE
    Bind(IF ~IsNone(cache_entry.val) /\ UlicMultiEntry_len(Val(cache_entry.val)) > 0
         THEN UlicMultiEntry_add_entry(Val(cache_entry.val), to.val)
         ELSE UlicMultiEntry_init(to.val), LAMBDA entry :
    IF entry.err # "" THEN Fail(entry.err, t)
    ELSE Outcome(entry_add(ser, t, to.val.symul, entry.val), t))))

\* UlicCache._handle_u: remove_by_sym is called on what cache.get returned,
\* None when nothing is stored; the entry is deleted when it is left empty
UlicCache_handle_u(ser, t, obj) ==
    Bind(UlicEntry_from_update(obj.przed), LAMBDA old :
    IF old.err # "" THEN Fail(old.err, t) ELSE
    Bind(entry_get(ser, t, old.val.symul), LAMBDA cache_entry :
    IF cache_entry.err # "" THEN Fail(cache_entry.err, t)
    ELSE IF IsNone(cache_entry.val) THEN Fail("AttributeError", t) ELSE
    Bind(UlicMultiEntry_remove_by_sym(Val(cache_entry.val), old.val.sym), LAMBDA left :
    IF left.err # "" THEN Fail(left.err, t)
    ELSE IF UlicMultiEntry_len(left.val) = 0
         THEN Outcome(entry_delete(t, old.val.symul), t)
    ELSE Outcome(entry_add(ser, t, left.val.symul, left.val), t))))

\* UlicCache._handle_m, lines 840-850: the entity left its street; the old
\* entry is deleted or stored without it, and the entry of the new street is
\* created or gets the entity
UlicCache_handle_m_rekey(ser, t, old, cache_entry, ulic_entry) ==
    Bind(UlicMultiEntry_remove_by_sym(cache_entry, old.sym), LAMBDA left :
    IF left.err # "" THEN Fail(left.err, t) ELSE
    Bind(IF UlicMultiEntry_len(left.val) = 0 THEN entry_delete(t, old.symul)
         ELSE entry_add(ser, t, old.symul, left.val), LAMBDA moved :
    IF moved.err # "" THEN Fail(moved.err, t) ELSE
    Bind(entry_get(ser, moved.val, ulic_entry.symul), LAMBDA new :
    IF new.err # "" THEN Fail(new.err, moved.val) ELSE
    Bind(IF IsNone(new.val) \/ UlicMultiEntry_len(Val(new.val)) = 0
         THEN UlicMultiEntry_init(ulic_entry)
         ELSE UlicMultiEntry_add_entry(Val(new.val), ulic_entry), LAMBDA entry :
    IF entry.err # "" THEN Fail(entry.err, moved.val)
    ELSE Outcome(entry_add(ser, moved.val, entry.val.symul, entry.val), moved.val)))))

\* UlicCache._handle_m: the entity of the before-fields is looked up in its
\* street's entry and updated in place from the after-fields; the entry is
\* stored again, under the new street when the street changed
UlicCache_handle_m(ser, t, obj) ==
    Bind(UlicEntry_from_update(obj.przed), LAMBDA old :
    IF old.err # "" THEN Fail(old.err, t) ELSE
    Bind(IF PyTruthy(old.val.symul) THEN entry_get(ser, t, old.val.symul)
         ELSE Ok(None), LAMBDA cache_entry :
    IF cache_entry.err # "" THEN Fail(cache_entry.err, t)
    ELSE IF IsNone(cache_entry.val) \/ UlicMultiEntry_len(Val(cache_entry.val)) = 0
         THEN Fail("ValueError", t) ELSE
    Bind(UlicMultiEntry_get_by_sym(Val(cache_entry.val), old.val.sym), LAMBDA member :
    IF member.err # "" THEN Fail(member.err, t) ELSE
    Bind(UlicEntry_update_from(member.val, obj.po), LAMBDA ulic_entry :
    IF ulic_entry.err # "" THEN Fail(ulic_entry.err, t) ELSE
    Bind([Val(cache_entry.val) EXCEPT
             !.entries = ItemsSet(Val(cache_entry.val).entries, old.val.sym,
                                  ulic_entry.val)], LAMBDA updated :
    IF ~PyEq(old.val.symul, ulic_entry.val.symul)
    THEN UlicCache_handle_m_rekey(ser, t, old.val, updated, ulic_entry.val)
    ELSE Outcome(entry_add(ser, t, updated.symul, updated), t))))))

\* UlicCache._handle_z: every entity of the street's entry is updated from the
\* after-fields (get_all is called on None when nothing is stored); the entry
\* takes symul, cecha and nazwa of the last entity and is stored
UlicCache_handle_z(ser, t, obj) ==
    Bind(UlicEntry_from_update(obj.przed), LAMBDA old :
    IF old.err # "" THEN Fail(old.err, t) ELSE
    Bind(entry_get(ser, t, old.val.symul), LAMBDA cache_entry :
    IF cache_entry.err # "" THEN Fail(cache_entry.err, t)
    ELSE IF IsNone(cache_entry.val) THEN Fail("AttributeError", t) ELSE
    Bind(AllOk([i \in 1..Len(Val(cache_entry.val).entries) |->
                   UlicEntry_update_from(Val(cache_entry.val).entries[i][2], obj.po)]),
         LAMBDA entries :
    IF entries.err # "" THEN Fail(entries.err, t)
    ELSE IF entries.val = <<>> THEN Fail("UnboundLocalError", t) ELSE
    Bind(entries.val[Len(entries.val)], LAMBDA ulic_entry :
    Bind(UlicEntry_cecha(ulic_entry), LAMBDA cecha :
    IF cecha.err # "" THEN Fail(cecha.err, t) ELSE
    Bind(UlicEntry_nazwa(ulic_entry), LAMBDA nazwa :
    IF nazwa.err # "" THEN Fail(nazwa.err, t)
    ELSE Outcome(entry_add(ser, t, ulic_entry.symul,
            [Val(cache_entry.val) EXCEPT
                !.symul = ulic_entry.symul, !.cecha = cecha.val, !.nazwa = nazwa.val,
                !.entries = [i \in 1..Len(entries.val) |->
                    <<Val(cache_entry.val).entries[i][1], entries.val[i]>>]]), t)))))))

\* the operation codes of a catalog's change_handlers
change_handlers(c) ==
    IF c = "simc" THEN {"D", "U", "Z", "P"}
    ELSE IF c = "terc" THEN {"D", "U", "M"}
    ELSE {"D", "M", "U", "Z"}

\* one pass of the loop of _cache_update: the handler of the record's
\* TypKorekty is looked up and called
\* a replay that passes over a record whose operation has no handler
handle_skips_unknown(c, ser, t, obj) ==
    IF obj.op \notin change_handlers(c) THEN Done(t)
    ELSE IF c = "simc"
         THEN CASE obj.op = "D" -> SimcCache_handle_d(ser, t, obj)
                [] obj.op = "U" -> SimcCache_handle_u(ser, t, obj)
                [] obj.op = "Z" -> SimcCache_handle_z(ser, t, obj)
                [] obj.op = "P" -> SimcCache_handle_p(ser, t, obj)
    ELSE IF c = "terc"
         THEN CASE obj.op = "D" -> TercCache_handle_d(ser, t, obj)
                [] obj.op = "U" -> TercCache_handle_u(ser, t, obj)
                [] obj.op = "M" -> TercCache_handle_m(ser, t, obj)
    ELSE CASE obj.op = "D" -> UlicCache_handle_d(ser, t, obj)
           [] obj.op = "M" -> UlicCache_handle_m(ser, t, obj)
           [] obj.op = "U" -> UlicCache_handle_u(ser, t, obj)
           [] obj.op = "Z" -> UlicCache_handle_z(ser, t, obj)

handle(c, ser, t, obj) ==
    IF obj.op \notin change_handlers(c) THEN Fail("ValueError", t)
    ELSE IF c = "simc"
         THEN CASE obj.op = "D" -> SimcCache_handle_d(ser, t, obj)
                [] obj.op = "U" -> SimcCache_handle_u(ser, t, obj)
                [] obj.op = "Z" -> SimcCache_handle_z(ser, t, obj)
                [] obj.op = "P" -> SimcCache_handle_p(ser, t, obj)
    ELSE IF c = "terc"
         THEN CASE obj.op = "D" -> TercCache_handle_d(ser, t, obj)
                [] obj.op = "U" -> TercCache_handle_u(ser, t, obj)
                [] obj.op = "M" -> TercCache_handle_m(ser, t, obj)
    ELSE CASE obj.op = "D" -> UlicCache_handle_d(ser, t, obj)
           [] obj.op = "M" -> UlicCache_handle_m(ser, t, obj)
           [] obj.op = "U" -> UlicCache_handle_u(ser, t, obj)
           [] obj.op = "Z" -> UlicCache_handle_z(ser, t, obj)

----------------------------------------------------------------------------
(* BaseTerytCache.get *)

\* _get_cache returning a Cache whatever the meta entry says
BaseTerytCache_get_cache_unchecked(cache_version_) ==
    [res |-> Ok(Some(Path(cat))), ser |-> cat]

\* _get_cache(cache_version): the outcome of get_cache and the serializer of
\* the Cache it returns
BaseTerytCache_get_cache(cache_version_) ==
    IF cache_version_ # 0
    THEN [res |-> get_cache(Path(cat), Some(cache_version_)), ser |-> cat]
    ELSE [res |-> get_cache(Path(cat), None), ser |-> "simc"]

\* the call has come to `return self.get()` after the loop of _cache_update
Replayed == run.pc = "g_apply" /\ run.pending = <<>>

\* get, line 592, when get is called and each time it calls itself
BaseTerytCache_get_try ==
    /\ run.pc = "idle" \/ (Replayed /\ run.depth < MaxRetries)
    /\ LET r == BaseTerytCache_get_cache(cache_version.version).res
           depth == IF run.pc = "idle" THEN 0 ELSE run.depth + 1
       IN IF r.err = "CacheExpired"
          THEN /\ run' = [pc |-> "g_update", depth |-> depth]
               /\ eng' = cache_version
               /\ last' = Returned("BaseTerytCache.get", Running)
          ELSE /\ run' = Idle
               /\ eng' = NewInstance
               /\ last' = Returned("BaseTerytCache.get", r.err)
    /\ UNCHANGED <<driver, throughput, tables, itemCount, now, cat, tz, remoteDay>>

\* get, lines 594-596 and _cache_update, lines 636-638: the stored and the
\* current version are read, the update between their dates is downloaded and
\* parsed, and the cache is opened
cache_update_download(deltas) ==
    /\ run.pc = "g_update"
    /\ LET stored == Val(version(Path(cat)).val)
           start == int_to_datetime(stored)
           end == int_to_datetime(cache_version.version)
           cache == BaseTerytCache_get_cache(date_to_int(start))
       IN \E data \in {Payload(d) : d \in deltas} \cup {Malformed} :
            IF ~data.wellformed \/ cache.res.err # ""
            THEN /\ run' = Idle
                 /\ eng' = NewInstance
                 /\ last' = Returned("BaseTerytCache.get",
                                     IF ~data.wellformed THEN "ParseError"
                                     ELSE cache.res.err)
            ELSE /\ run' = [pc |-> "g_apply", depth |-> run.depth, ser |-> cache.ser,
                            start |-> start, end |-> end,
                            pending |-> data.rows, applied |-> 0]
                 /\ eng' = cache_version
                 /\ UNCHANGED last
    /\ UNCHANGED <<driver, throughput, tables, itemCount, now, cat, tz, remoteDay>>

BaseTerytCache_cache_update_download == cache_update_download(Deltas(cat))

\* the same step with a registry that also changes identifiers
BaseTerytCache_cache_update_download_rekeying ==
    cache_update_download(RekeyingDeltas(cat))

\* the registry cannot be reached for the update
BaseTerytCache_cache_update_download_fails ==
    /\ run.pc = "g_update"
    /\ run' = Idle
    /\ eng' = NewInstance
    /\ last' = Returned("BaseTerytCache.get", "TransportError")
    /\ UNCHANGED <<driver, throughput, tables, itemCount, now, cat, tz, remoteDay>>

\* _cache_update, lines 640-647: one change record is handled, with outcome r
cache_update_apply(r) ==
    /\ tables' = (Path(cat) :> r.tbl) @@ tables
    /\ IF r.err = ""
       THEN /\ run' = [run EXCEPT !.pending = Tail(run.pending),
                                  !.applied = run.applied + 1]
            /\ UNCHANGED <<eng, last>>
       ELSE /\ run' = Idle
            /\ eng' = NewInstance
            /\ last' = Returned("BaseTerytCache.get", r.err)

\* a loop that takes the records of the update from its end
BaseTerytCache_cache_update_apply_last ==
    /\ run.pc = "g_apply"
    /\ run.pending # <<>>
    /\ cache_update_apply(handle(cat, run.ser, Table(Path(cat)),
                                 run.pending[Len(run.pending)]))
    /\ UNCHANGED <<driver, throughput, itemCount, now, cat, tz, remoteDay>>

BaseTerytCache_cache_update_apply ==
    /\ run.pc = "g_apply"
    /\ run.pending # <<>>
    /\ cache_update_apply(handle(cat, run.ser, Table(Path(cat)), Head(run.pending)))
    /\ UNCHANGED <<driver, throughput, itemCount, now, cat, tz, remoteDay>>

\* the process is interrupted during the replay
BaseTerytCache_cache_update_interrupted ==
    /\ run.pc = "g_apply"
    /\ run' = Idle
    /\ eng' = NewInstance
    /\ last' = Returned("BaseTerytCache.get", "Interrupted")
    /\ UNCHANGED <<driver, throughput, tables, itemCount, now, cat, tz, remoteDay>>

----------------------------------------------------------------------------
(* DynamoCache.reload, as __wmrodz_create calls it on the cache that        *)
(* create_cache returned                                                    *)

\* the write capacities a table is provisioned with
WriteCapacities == {5, RELOAD_WRITE_CAPACITY, 25}

\* dict((x.rm, x.nazwa_rm) for x in ...), as the sequence of its items
KindDicts ==
    { <<>>, << <<"96", "wies">> >>, << <<"96", "wies">>, <<"98", "miasto">> >> }

\* _set_write_capacity: update_table sets the capacity when DynamoDB accepts
\* the call; it raises ClientError when DynamoDB rejects it (the table is
\* still being updated, the capacity is the one it has, the limit of
\* decreases is reached), and reload passes over that error
DynamoCache_set_write_capacity(name, capacity, accepted) ==
    IF accepted THEN (name :> capacity) @@ throughput ELSE throughput

\* reload, lines 178-184: the capacity is read and raised when it is low
DynamoCache_reload_begin(name, contents) ==
    /\ run.pc = "idle"
    /\ driver = "dynamo"
    /\ HoldsCache(name)
    /\ \E accepted \in BOOLEAN :
          throughput' = IF throughput[name] < RELOAD_WRITE_CAPACITY
                        THEN DynamoCache_set_write_capacity(name, RELOAD_WRITE_CAPACITY,
                                                            accepted)
                        ELSE throughput
    /\ run' = [pc |-> "reload_write", name |-> name,
               old_capacity |-> throughput[name], pending |-> contents, err |-> ""]
    /\ last' = [op |-> "Cache.reload", name |-> name, version |-> None, err |-> Running]
    /\ UNCHANGED <<driver, tables, itemCount, now, cat, tz, remoteDay, eng>>

\* reload, lines 185-192: one item goes through the batch writer
DynamoCache_reload_put ==
    /\ run.pc = "reload_write"
    /\ run.pending # <<>>
    /\ tables' = (run.name :> DynamoCache_add(
                                 Ok(JsonSerializer_serialize(Head(run.pending)[2])),
                                 Table(run.name), Head(run.pending)[1]).val) @@ tables
    /\ run' = [run EXCEPT !.pending = Tail(run.pending)]
    /\ UNCHANGED <<driver, throughput, itemCount, now, last, cat, tz, remoteDay, eng>>

\* DynamoDB rejects a write of the batch
DynamoCache_reload_put_fails ==
    /\ run.pc = "reload_write"
    /\ run.pending # <<>>
    /\ run' = [run EXCEPT !.pc = "reload_finally", !.err = "ClientError"]
    /\ UNCHANGED <<driver, tables, throughput, itemCount, now, last, cat, tz,
                   remoteDay, eng>>

\* reload, lines 193-197: the finally clause sets the capacity read at the
\* start, then reload returns or raises what the write raised
DynamoCache_reload_finally ==
    /\ \/ run.pc = "reload_finally"
       \/ run.pc = "reload_write" /\ run.pending = <<>>
    /\ \E accepted \in BOOLEAN :
          throughput' = DynamoCache_set_write_capacity(run.name, run.old_capacity,
                                                      accepted)
    /\ run' = Idle
    /\ last' = [op |-> "Cache.reload", name |-> run.name, version |-> None,
                err |-> run.err]
    /\ UNCHANGED <<driver, tables, itemCount, now, cat, tz, remoteDay, eng>>

----------------------------------------------------------------------------
(* Environment *)

Tick ==
    /\ now < MaxTicks
    /\ now' = now + 1
    /\ UNCHANGED <<driver, throughput, tables, itemCount, last, engVars>>

\* DynamoDB publishes the item count of a table
DynamoItemCountUpdate(name) ==
    /\ driver = "dynamo"
    /\ itemCount[name] # Cardinality(DOMAIN Table(name))
    /\ itemCount' = (name :> Cardinality(DOMAIN Table(name))) @@ itemCount
    /\ UNCHANGED <<driver, throughput, tables, now, last, engVars>>

----------------------------------------------------------------------------

Versions == {d * Day : d \in Days}
\* the version argument of get_cache: none, or a version
VersionArgs == {None} \cup {Some(x) : x \in Versions}

\* the registry publishes a newer catalog
RegistryPublish ==
    /\ remoteDay + 1 \in Days
    /\ remoteDay' = remoteDay + 1
    /\ UNCHANGED <<mgrVars, cat, tz, eng, run>>

\* the tables are provisioned with the write capacity reload asks for, so
\* the reload of create_cache leaves the capacity as it is
Init ==
    /\ driver \in {"shelve", "dynamo"}
    /\ tables = IF driver = "shelve" THEN (META :> EmptyTable)
                ELSE [n \in CacheNames \cup {META} |-> EmptyTable]
    /\ itemCount = [n \in CacheNames \cup {META} |-> 0]
    /\ throughput = [n \in CacheNames \cup {META} |-> RELOAD_WRITE_CAPACITY]
    /\ now = 1
    /\ last = [op |-> "init", name |-> "", version |-> None, err |-> ""]
    /\ cat \in {"simc", "terc"}
    /\ tz \in TzOffsets
    /\ remoteDay = 2
    /\ eng = NewInstance
    /\ run = Idle

\* a caller that uses the cache manager and the caches it returns
Next ==
    \/ \E name \in CallNames, v \in VersionArgs : Do_get_cache(name, v)
    \/ \E name \in CallNames : Do_version(name)
    \/ \E name \in CallNames : Do_create_cache(name)
    \/ \E name \in CallNames, v \in Versions : Do_mark_ready(name, v)
    \/ \E name \in CallNames, key \in DictKeys, value \in DictValues :
          Do_add(name, key, value)
    \/ \E name \in CallNames, key \in DictKeys : Do_delete(name, key)
    \/ \E name \in CallNames : Do_keys(name)
    \/ Tick
    \/ \E name \in CallNames : DynamoItemCountUpdate(name)

\* the cache manager does not depend on the catalog of the sync engine
InitManager == Init /\ cat = "simc"

Spec == InitManager /\ [][Next]_vars

\* a caller that uses the registry sync engine of a catalog, and the cache
\* manager for the engine's cache
NextSync ==
    \/ BaseTerytCache_create_cache_download
    \/ BaseTerytCache_create_cache_download_fails
    \/ BaseTerytCache_create_cache_create
    \/ BaseTerytCache_create_cache_decode
    \/ BaseTerytCache_create_cache_reload_add
    \/ BaseTerytCache_create_cache_reload_fails
    \/ BaseTerytCache_create_cache_mark_ready
    \/ BaseTerytCache_get_try
    \/ BaseTerytCache_cache_update_download
    \/ BaseTerytCache_cache_update_download_fails
    \/ BaseTerytCache_cache_update_apply
    \/ BaseTerytCache_cache_update_interrupted
    \/ \E v \in VersionArgs : Do_get_cache(Path(cat), v)
    \/ Do_create_cache(Path(cat))
    \/ \E v \in Versions : Do_mark_ready(Path(cat), v)
    \/ RegistryPublish
    \/ Tick
    \/ DynamoItemCountUpdate(Path(cat))

SpecSync == Init /\ [][NextSync]_vars

\* the sync engine alone, building its cache and bringing it forward, with a
\* registry whose updates also change identifiers
NextReplay ==
    \/ BaseTerytCache_create_cache_download
    \/ BaseTerytCache_create_cache_create
    \/ BaseTerytCache_create_cache_decode
    \/ BaseTerytCache_create_cache_reload_add
    \/ BaseTerytCache_create_cache_mark_ready
    \/ BaseTerytCache_get_try
    \/ BaseTerytCache_cache_update_download_rekeying
    \/ BaseTerytCache_cache_update_apply
    \/ RegistryPublish

SpecReplay == Init /\ [][NextReplay]_vars

\* the sync engine of the streets catalog
InitUlic ==
    /\ driver \in {"shelve", "dynamo"}
    /\ tables = IF driver = "shelve" THEN (META :> EmptyTable)
                ELSE [n \in CacheNames \cup {META} |-> EmptyTable]
    /\ itemCount = [n \in CacheNames \cup {META} |-> 0]
    /\ throughput = [n \in CacheNames \cup {META} |-> RELOAD_WRITE_CAPACITY]
    /\ now = 1
    /\ last = [op |-> "init", name |-> "", version |-> None, err |-> ""]
    /\ cat = "ulic"
    /\ tz \in TzOffsets
    /\ remoteDay = 2
    /\ eng = NewInstance
    /\ run = Idle

NextUlic ==
    \/ BaseTerytCache_create_cache_download
    \/ BaseTerytCache_create_cache_create
    \/ BaseTerytCache_create_cache_decode
    \/ BaseTerytCache_create_cache_reload_add
    \/ BaseTerytCache_create_cache_mark_ready
    \/ BaseTerytCache_get_try
    \/ BaseTerytCache_cache_update_download
    \/ BaseTerytCache_cache_update_apply
    \/ RegistryPublish

SpecUlic == InitUlic /\ [][NextUlic]_vars

\* the kind dictionary is built in DynamoDB tables of any write capacity
InitReload ==
    /\ driver = "dynamo"
    /\ tables = [n \in CacheNames \cup {META} |-> EmptyTable]
    /\ itemCount = [n \in CacheNames \cup {META} |-> 0]
    /\ \E c \in WriteCapacities : throughput = [n \in CacheNames \cup {META} |-> c]
    /\ now = 1
    /\ last = [op |-> "init", name |-> "", version |-> None, err |-> ""]
    /\ cat = "simc"
    /\ tz \in TzOffsets
    /\ remoteDay = 2
    /\ eng = NewInstance
    /\ run = Idle

NextReload ==
    \/ Do_create_cache(TERYT_WMRODZ_DB)
    \/ \E contents \in KindDicts : DynamoCache_reload_begin(TERYT_WMRODZ_DB, contents)
    \/ DynamoCache_reload_put
    \/ DynamoCache_reload_put_fails
    \/ DynamoCache_reload_finally
    \/ \E v \in Versions : Do_mark_ready(TERYT_WMRODZ_DB, v)
    \/ \E v \in VersionArgs : Do_get_cache(TERYT_WMRODZ_DB, v)
    \/ DynamoItemCountUpdate(TERYT_WMRODZ_DB)

SpecReload == InitReload /\ [][NextReload]_vars

----------------------------------------------------------------------------
(* Properties *)

\* C1, under SpecSync.  While BaseTerytCache.create_cache is between
\* CacheManager.create_cache(path) and mark_ready, the meta status of path is
\* creating and get_cache(path) fails with CacheNotInitialized, with any
\* version argument.  A step of the build makes the status ready only when it
\* is the mark_ready step, taken when reload has written every entry.  A step
\* that ends the build with an exception after CacheManager.create_cache
\* leaves the status creating, and get_cache still fails with
\* CacheNotInitialized.
Building == run.pc \in {"cc_decode", "cc_reload"}
C1_NotReadable ==
    /\ Status(Path(cat)) = "creating"
    /\ \A v \in VersionArgs : get_cache(Path(cat), v).err = "CacheNotInitialized"
C1_BuildStep ==
    Building =>
        /\ Status(Path(cat))' = "ready" =>
              /\ BaseTerytCache_create_cache_mark_ready
              /\ run.pc = "cc_reload" /\ run.pending = <<>>
              /\ {run.contents[i][1].v : i \in 1..Len(run.contents)}
                    \subseteq DOMAIN Table(Path(cat))
        /\ (run'.pc = "idle" /\ last'.err # "") => C1_NotReadable'
C1_CreatingUntilMarkReady == [](Building => C1_NotReadable) /\ [][C1_BuildStep]_vars

\* a build interrupted after reload wrote an entry
C1_Witness ==
    /\ last.op = "BaseTerytCache.create_cache"
    /\ last.err = "Interrupted"
    /\ Table(Path(cat)) # EmptyTable
    /\ Status(Path(cat)) = "creating"

\* C2, under Spec.  When the last call was get_cache(name, v), for a name
\* other than the reserved one and with or without a version, and the meta
\* table has no entry for name or the entry's status is not ready, the call
\* failed with CacheNotInitialized.
C2_NotInitialized ==
    (last.op = "get_cache" /\ last.name \in CacheNames /\ Status(last.name) # "ready")
        => last.err = "CacheNotInitialized"

\* get_cache with a version has failed on an entry that is there, but creating
C2_Witness ==
    /\ last.op = "get_cache"
    /\ last.err = "CacheNotInitialized"
    /\ last.name \in CacheNames
    /\ ~IsNone(last.version)
    /\ Status(last.name) = "creating"

\* C3, under Spec.  When the last call was get_cache(name, v) and the entry of
\* name is ready at stored version s, the call failed with CacheExpired if v
\* was given and v > s, and returned the cache if v <= s or no version was
\* given.
C3_ReadyVersions ==
    (last.op = "get_cache" /\ last.name \in CacheNames /\ Status(last.name) = "ready")
        => last.err = IF ~IsNone(last.version)
                         /\ Val(last.version) > StoredVersion(last.name)
                      THEN "CacheExpired" ELSE ""

\* get_cache has failed with CacheExpired on a ready entry
C3_Witness ==
    /\ last.op = "get_cache"
    /\ last.err = "CacheExpired"
    /\ Status(last.name) = "ready"
    /\ Val(last.version) > StoredVersion(last.name)

\* C4, under Spec.  The status of a name becomes ready only in a step that is
\* a call of mark_ready for that name; after a call create_cache(name) that
\* returned, the status of name is creating, so a ready status was written by
\* a mark_ready after the most recent create_cache; and after a call
\* mark_ready(name, v) that returned, the entry is ready with version v.
C4_After ==
    /\ (last.op = "create_cache" /\ last.err = "") => Status(last.name) = "creating"
    /\ (last.op = "mark_ready" /\ last.err = "")
          => Status(last.name) = "ready" /\ StoredVersion(last.name) = Val(last.version)
C4_Step ==
    Table(META)' # Table(META) =>
        \A name \in CallNames :
            (Status(name)' = "ready" /\ Status(name) # "ready")
                => \E v \in Versions : Do_mark_ready(name, v)
C4_MarkReadyCommits == []C4_After /\ [][C4_Step]_vars

\* mark_ready has returned on an entry that create_cache had made creating
\* after it was ready, and the entry is ready at the latest version
C4_Witness ==
    /\ last.op = "mark_ready"
    /\ last.err = ""
    /\ Status(last.name) = "ready"
    /\ StoredVersion(last.name) = (MaxDay + 1) * Day

\* C5, under SpecSync.  When get() has replayed an update of at least one
\* record and every record was applied, its retry succeeds: the get_cache of
\* the call get() then makes of itself returns the cache.
C5_RetrySucceeds ==
    (Replayed /\ run.applied > 0)
        => BaseTerytCache_get_cache(cache_version.version).res.err = ""

\* C6, under SpecSync.  When get() has replayed an update of at least one
\* record and every record was applied, the version stored in the meta entry
\* is the version probed from the registry.
C6_VersionAdvanced ==
    (Replayed /\ run.applied > 0) => StoredVersion(Path(cat)) = eng.version

\* C7, under SpecSync.  When BaseTerytCache.create_cache ends with mark_ready,
\* get_cache(path, v) returns the cache for every v up to the version built,
\* and the table holds the snapshot: its keys are the snapshot's keys, and
\* each is read back as the snapshot's entity.
EntityEq(a, b) == DOMAIN a = DOMAIN b /\ \A f \in DOMAIN a : PyEq(a[f], b[f])
ReadsBack(t, key, x) ==
    LET got == entry_get(cat, t, key) IN
    got.err = "" /\ ~IsNone(got.val) /\ EntityEq(Val(got.val), x)
HoldsSnapshot(t, contents) ==
    /\ DOMAIN t = {contents[i][1].v : i \in 1..Len(contents)}
    /\ \A i \in 1..Len(contents) : ReadsBack(t, contents[i][1], contents[i][2])
C7_Step ==
    BaseTerytCache_create_cache_mark_ready =>
        /\ \A v \in VersionArgs :
              (IsNone(v) \/ Val(v) <= run.version) => get_cache(Path(cat), v)'.err = ""
        /\ HoldsSnapshot(Table(Path(cat))', run.contents)
C7_SnapshotStored == [][C7_Step]_vars

\* C8, under Spec.  Once version(name) has returned a version, no step makes
\* it return a lower one.
Reported(name) ==
    IF version(name).err = "" THEN Val(version(name).val) ELSE -1
C8_Step ==
    \A name \in CacheNames :
        Reported(name) >= 0 => Reported(name)' >= Reported(name)
C8_VersionMonotonic == [][C8_Step]_vars

\* C9, under Spec.  A call version(name) returns: it raises nothing, whether
\* or not the meta table has an entry for name.
C9_VersionNeverFails == last.op = "version" => last.err = ""

\* C10, under Spec.  After a call create_cache(name) that returned, the meta
\* entry of name is creating with updated 0 and the table of name is empty.
C10_CreateEmpties ==
    (last.op = "create_cache" /\ last.err = "")
        => /\ Entry(last.name) = Some(CreatingEntry)
           /\ Table(last.name) = EmptyTable

\* C11, under Spec.  The meta table never holds an entry under the key
\* "meta"; a call create_cache("meta") or get_cache("meta") fails with
\* ValueError (the code's InvalidName), and the step of such a call leaves
\* every table, the meta table included, as it was.
C11_Reserved ==
    /\ META \notin DOMAIN Table(META)
    /\ (last.op \in {"get_cache", "create_cache"} /\ last.name = META)
          => last.err = "ValueError"
C11_Step ==
    (last'.name = META /\ last'.op \in {"get_cache", "create_cache"})
        => ((Do_create_cache(META) \/ Do_get_cache(META, last'.version))
               => tables' = tables)
C11_MetaNameForbidden == []C11_Reserved /\ [][C11_Step]_vars

\* create_cache("meta") has failed while other caches exist
C11_Witness ==
    /\ last.op = "create_cache"
    /\ last.name = META
    /\ last.err = "ValueError"
    /\ DOMAIN Table(META) # {}

\* C12, under Spec.  A call mark_ready(name, v) for a name that has no meta
\* entry fails and changes no table; after it the name still has no meta
\* entry, and get_cache(name), with any version, fails with
\* CacheNotInitialized.
C12_After ==
    (last.op = "mark_ready" /\ last.err # "")
        => /\ IsNone(Entry(last.name))
           /\ last.name \in CacheNames
                 => \A v \in VersionArgs :
                       get_cache(last.name, v).err = "CacheNotInitialized"
C12_Step ==
    (last'.op = "mark_ready" /\ IsNone(Entry(last'.name))
        /\ Do_mark_ready(last'.name, Val(last'.version)))
            => last'.err # "" /\ tables' = tables
C12_MarkReadyNeedsEntry == []C12_After /\ [][C12_Step]_vars

\* mark_ready has failed for a cache name while another name has an entry
C12_Witness ==
    /\ last.op = "mark_ready"
    /\ last.err = "TypeError"
    /\ last.name \in CacheNames
    /\ DOMAIN Table(META) # {}

\* C13, under SpecSync.  A call get() of the sync engine, made when the cache
\* of its catalog has no meta entry or is creating, ends in its first step
\* with CacheNotInitialized: it does not go on to download or replay an
\* update, and it leaves every table, the meta table included, as it was.
C13_Step ==
    (run.pc = "idle" /\ Status(Path(cat)) # "ready" /\ BaseTerytCache_get_try)
        => /\ last'.err = "CacheNotInitialized"
           /\ run'.pc = "idle"
           /\ tables' = tables
C13_GetPropagates == [][C13_Step]_vars

\* get() has failed with CacheNotInitialized on a cache whose build was
\* interrupted after it wrote an entry
C13_Witness ==
    /\ last.op = "BaseTerytCache.get"
    /\ last.err = "CacheNotInitialized"
    /\ Status(Path(cat)) = "creating"
    /\ Table(Path(cat)) # EmptyTable

\* C14, under Spec.  A step that is a call of get_cache, whatever its outcome,
\* leaves the meta table and every cache table as they were.
C14_Step ==
    (last'.op = "get_cache" /\ Do_get_cache(last'.name, last'.version))
        => tables' = tables
C14_GetCacheNoSideEffects == [][C14_Step]_vars

\* get_cache has failed with CacheExpired on a cache that holds an entry
C14_Witness ==
    /\ last.op = "get_cache"
    /\ last.err = "CacheExpired"
    /\ Table(last.name) # EmptyTable

\* C15, under SpecSync.  A cache that holds the catalog at version v1 and is
\* brought forward by get() replaying the registry's update from v1 to v2 has
\* the content of the catalog at v2: the same keys, and at every key the same
\* stored entity.  Checked on the catalogs the registry publishes one change
\* apart: for each pair, the cache built from the earlier catalog, after the
\* replay of the change, equals the cache built from the later catalog.
TableEq(t1, t2) ==
    /\ DOMAIN t1 = DOMAIN t2
    /\ \A k \in DOMAIN t1 : EntityEq(t1[k].pb, t2[k].pb)
Built(c, rows) == Cache_reload(c, EmptyTable, DictItems(c, rows)).val
ZmianaEq(a, b) == a.op = b.op /\ EntityEq(a.przed, b.przed) /\ EntityEq(a.po, b.po)
C15_Updates(c) ==
    LET simc == [woj |-> "04", pow |-> "02", gmi |-> "01", rodz_gmi |-> "1", rm |-> "96",
                 sym |-> "0982954", sympod |-> "0982954"]
        brodnica == [terc |-> S("0402011"), rm |-> S("96"), nazwa |-> S("Brodnica"),
                     sym |-> S("0982954")]
        renamed == [terc |-> PyNone, rm |-> PyNone, nazwa |-> S("Nowa"), sym |-> PyNone]
        terc == [woj |-> "02", pow |-> "14", gmi |-> "01", rodz |-> "1"]
        przyklad == [woj |-> S("02"), powiat |-> S("14"), gmi |-> S("01"),
                     rodz |-> S("1"), nazwadod |-> S("gmina miejska"),
                     nazwa |-> S("Przyklad")]
        nowy == [woj |-> PyNone, powiat |-> PyNone, gmi |-> PyNone,
                 rodz |-> PyNone, nazwadod |-> PyNone, nazwa |-> S("Nowy")]
    IN IF c = "simc"
       THEN { [from |-> << [nazwa |-> "Brodnica"] @@ simc >>,
               zmiana |-> Zmiana("Z", brodnica, renamed),
               to |-> << [nazwa |-> "Nowa"] @@ simc >>],
              [from |-> << [nazwa |-> "Brodnica"] @@ simc >>,
               zmiana |-> Zmiana("U", brodnica, EmptyDict),
               to |-> << >>] }
       ELSE { [from |-> << [nazwa |-> "Przyklad"] @@ terc >>,
               zmiana |-> Zmiana("M", przyklad, nowy),
               to |-> << [nazwa |-> "Nowy"] @@ terc >>] }
C15_Step ==
    (run.pc = "g_apply" /\ Len(run.pending) = 1 /\ run.applied = 0
        /\ BaseTerytCache_cache_update_apply)
    => \A u \in C15_Updates(cat) :
          (ZmianaEq(Head(run.pending), u.zmiana)
              /\ TableEq(Table(Path(cat)), Built(cat, u.from)))
              => /\ run'.pc = "g_apply"
                 /\ TableEq(Table(Path(cat))', Built(cat, u.to))
C15_ReplayEqualsSnapshot == [][C15_Step]_vars

\* C16, under SpecSync.  Every entity the engine writes to a catalog's cache
\* survives the round trip through the cache's serializer field for field:
\* serialize (to_dict, then the codec) returns, deserialize (the codec, then
\* from_dict) of its result returns, and the entity it returns equals the one
\* written.  Checked on the entities of the snapshot being loaded.
RoundTrip(c, x) ==
    LET data == ToFromJsonSerializer_serialize(c, x) IN
    /\ data.err = ""
    /\ ToFromJsonSerializer_deserialize(c, data.val).err = ""
    /\ EntityEq(ToFromJsonSerializer_deserialize(c, data.val).val, x)
C16_RoundTrip ==
    run.pc = "cc_reload" =>
        \A i \in 1..Len(run.contents) : RoundTrip(cat, run.contents[i][2])

\* C17, under SpecSync.  The replay of an Add (D) record returns and leaves
\* one entry retrievable at the key derived from the record's "after" fields
\* (the sym of a locality, the terc of a unit); the table holds that key and
\* the keys it held before, and every other entry is as it was.
AfterKey(c, obj) == IF c = "simc" THEN obj.po.sym ELSE TercEntry_terc(obj.po)
Retrievable(c, t, key) ==
    entry_get(c, t, key).err = "" /\ ~IsNone(entry_get(c, t, key).val)
OthersUnchanged(t1, t2, keys) ==
    /\ DOMAIN t2 \ keys = DOMAIN t1 \ keys
    /\ \A k \in DOMAIN t1 \ keys : EntityEq(t1[k].pb, t2[k].pb)
Applying(op) ==
    run.pc = "g_apply" /\ run.pending # <<>> /\ Head(run.pending).op = op
C17_Step ==
    (Applying("D") /\ BaseTerytCache_cache_update_apply)
    => /\ run'.pc = "g_apply"
       /\ Retrievable(cat, Table(Path(cat))', AfterKey(cat, Head(run.pending)))
       /\ OthersUnchanged(Table(Path(cat)), Table(Path(cat))',
                           {AfterKey(cat, Head(run.pending)).v})
C17_AddInserts == [][C17_Step]_vars

\* C18, under SpecReplay.  The replay of a Modify record (Z or P of a locality,
\* M of a unit) that addresses an entry of the cache and whose non-empty
\* "after" fields change the key (the sym of a locality; woj, powiat, gmi or
\* rodz of a unit) returns and leaves the entry retrievable at the new key and
\* no entry at the old key.
KeyFields(c) == IF c = "simc" THEN {"sym"} ELSE {"woj", "powiat", "gmi", "rodz"}
Overlay(przed, po) ==
    [f \in DOMAIN przed |->
        IF PyTruthy(DictGet(po, f, PyNone)) THEN po[f] ELSE przed[f]]
BeforeKey(c, obj) == IF c = "simc" THEN obj.przed.sym ELSE TercEntry_terc(obj.przed)
OverlayKey(c, obj) ==
    IF c = "simc" THEN Overlay(obj.przed, obj.po).sym
    ELSE TercEntry_terc(Overlay(obj.przed, obj.po))
IsModify(c, obj) == obj.op \in (IF c = "simc" THEN {"Z", "P"} ELSE {"M"})
ChangesKey(c, obj) ==
    \E f \in KeyFields(c) : ~PyEq(Overlay(obj.przed, obj.po)[f], obj.przed[f])
ApplyingModify ==
    /\ run.pc = "g_apply" /\ run.pending # <<>>
    /\ IsModify(cat, Head(run.pending))
C18_Step ==
    (ApplyingModify /\ ChangesKey(cat, Head(run.pending))
        /\ BeforeKey(cat, Head(run.pending)).v \in DOMAIN Table(Path(cat))
        /\ BaseTerytCache_cache_update_apply)
    => /\ run'.pc = "g_apply"
       /\ Retrievable(cat, Table(Path(cat))', OverlayKey(cat, Head(run.pending)))
       /\ BeforeKey(cat, Head(run.pending)).v \notin DOMAIN Table(Path(cat))'
C18_ModifyRekeys == [][C18_Step]_vars

\* C19, under SpecSync.  The replay of a Modify record (Z or P of a locality,
\* M of a unit) whose before-key is not in the cache fails with the error for
\* the modification of a record that does not exist (ValueError) and leaves
\* the cache table and the meta table as they were.
C19_Step ==
    (ApplyingModify
        /\ BeforeKey(cat, Head(run.pending)).v \notin DOMAIN Table(Path(cat))
        /\ BaseTerytCache_cache_update_apply)
    => /\ run'.pc = "idle"
       /\ last'.err = "ValueError"
       /\ TableEq(Table(Path(cat)), Table(Path(cat))')
       /\ Table(META)' = Table(META)
C19_ModifyNonexistent == [][C19_Step]_vars

\* C20, under SpecSync.  The replay of a Modify record that addresses an entry
\* of the cache and changes no key field returns and leaves the entry under
\* the same key: the table has the keys it had, every other entry is as it
\* was, every stored field whose "after" value is empty is as it was, and the
\* name is the "after" name when the record gives one.  (A unit keyed
\* "0214011" modified with nazwa = "Nowy" stays at "0214011", named "Nowy".)
Overlaid(before, after, po) ==
    /\ \A f \in DOMAIN before :
          ~PyTruthy(DictGet(po, f, PyNone))
              => f \in DOMAIN after /\ PyEq(after[f], before[f])
    /\ PyTruthy(DictGet(po, "nazwa", PyNone)) => PyEq(after.nazwa, po.nazwa)
C20_Step ==
    (ApplyingModify /\ ~ChangesKey(cat, Head(run.pending))
        /\ BeforeKey(cat, Head(run.pending)).v \in DOMAIN Table(Path(cat))
        /\ BaseTerytCache_cache_update_apply)
    => /\ run'.pc = "g_apply"
       /\ BeforeKey(cat, Head(run.pending)).v \in DOMAIN Table(Path(cat))'
       /\ OthersUnchanged(Table(Path(cat)), Table(Path(cat))',
                           {BeforeKey(cat, Head(run.pending)).v})
       /\ Overlaid(Table(Path(cat))[BeforeKey(cat, Head(run.pending)).v].pb,
                   Table(Path(cat))'[BeforeKey(cat, Head(run.pending)).v].pb,
                   Head(run.pending).po)
C20_ModifyOverlays == [][C20_Step]_vars

\* C21, under SpecSync.  The replay of a Remove (U) record of a locality or a
\* unit: when an entry is at the key derived from the "before" fields, the
\* handler returns, the key is gone and every other entry is as it was; when
\* no entry is there, the replay fails with an error that says the record does
\* not exist and the cache table is as it was, with either storage driver.
ModifyNonexistent == {"ValueError", "KeyError"}
C21_Step ==
    (Applying("U") /\ BaseTerytCache_cache_update_apply)
    => IF BeforeKey(cat, Head(run.pending)).v \in DOMAIN Table(Path(cat))
       THEN /\ run'.pc = "g_apply"
            /\ BeforeKey(cat, Head(run.pending)).v \notin DOMAIN Table(Path(cat))'
            /\ OthersUnchanged(Table(Path(cat)), Table(Path(cat))',
                               {BeforeKey(cat, Head(run.pending)).v})
       ELSE /\ run'.pc = "idle"
            /\ last'.err \in ModifyNonexistent
            /\ TableEq(Table(Path(cat)), Table(Path(cat))')
C21_RemoveDeletes == [][C21_Step]_vars

\* C22, under SpecUlic.  When the replay applies a Remove (U) record to the
\* streets cache and the street's entry holds the member the record names, the
\* handler returns; the street's entry is gone when that member was its last
\* one, and otherwise it is still there, can be read, and holds the members it
\* held before except the removed one.
StreetKey(fields) == fields.identyfikatornazwyulicy
StreetMember(fields) == py_int(fields.identyfikatormiejscowosci)
StoredMembers(t, k) ==
    IF k \notin DOMAIN t THEN {}
    ELSE { t[k].pb.entries[i].sym : i \in 1..Len(t[k].pb.entries) }
C22_Step ==
    (Applying("U")
        /\ StreetMember(Head(run.pending).przed)
              \in StoredMembers(Table(Path(cat)), StreetKey(Head(run.pending).przed).v)
        /\ BaseTerytCache_cache_update_apply)
    => /\ run'.pc = "g_apply"
       /\ IF StoredMembers(Table(Path(cat)), StreetKey(Head(run.pending).przed).v)
                = {StreetMember(Head(run.pending).przed)}
          THEN StreetKey(Head(run.pending).przed).v \notin DOMAIN Table(Path(cat))'
          ELSE /\ Retrievable(cat, Table(Path(cat))', StreetKey(Head(run.pending).przed))
               /\ StoredMembers(Table(Path(cat))', StreetKey(Head(run.pending).przed).v)
                    = StoredMembers(Table(Path(cat)),
                                    StreetKey(Head(run.pending).przed).v)
                        \ {StreetMember(Head(run.pending).przed)}
C22_StreetRemove == [][C22_Step]_vars

\* C23, under SpecUlic.  When the replay applies an Add (D) record to the
\* streets cache, the handler returns and the street's entry holds afterwards
\* the member the record names: alone when the street had no entry, and next
\* to the members the entry held before otherwise, in which case the entry can
\* be read.
C23_Step ==
    (Applying("D") /\ BaseTerytCache_cache_update_apply)
    => /\ run'.pc = "g_apply"
       /\ StoredMembers(Table(Path(cat))', StreetKey(Head(run.pending).po).v)
            = StoredMembers(Table(Path(cat)), StreetKey(Head(run.pending).po).v)
                \cup {StreetMember(Head(run.pending).po)}
       /\ StreetKey(Head(run.pending).po).v \in DOMAIN Table(Path(cat))
            => Retrievable(cat, Table(Path(cat))', StreetKey(Head(run.pending).po))
C23_StreetAdd == [][C23_Step]_vars

\* C24, under SpecSync.  When the replay comes to a record whose operation has
\* no handler in the catalog's change_handlers, the call of get() ends there
\* with ValueError (the code's unknown-operation error): the record changes
\* nothing, the records after it are dropped, and the meta table and the cache
\* stay as the earlier records left them.
UnknownOperation == "ValueError"
MeetsUnknown ==
    /\ run.pc = "g_apply" /\ run.pending # <<>>
    /\ Head(run.pending).op \notin change_handlers(cat)
C24_Step ==
    (MeetsUnknown /\ BaseTerytCache_cache_update_apply)
    => /\ run' = Idle
       /\ last'.op = "BaseTerytCache.get" /\ last'.err = UnknownOperation
       /\ tables' = tables
C24_UnknownOperationFails == [][C24_Step]_vars
\* the replay stands at a record with an unknown operation after it applied a
\* record, which is in the cache
C24_Witness ==
    /\ MeetsUnknown /\ run.applied > 0
    /\ DOMAIN Table(Path(cat)) # {}

\* C25, under Spec.  Cache.delete of a key that is not in the table raises and
\* leaves every table as it was, with the shelve driver and with the DynamoDB
\* driver.
C25_Step ==
    \A name \in CallNames, key \in DictKeys :
        (key \notin DOMAIN Table(name) /\ Do_delete(name, key))
        => (last'.err # "" /\ tables' = tables)
C25_DeleteAbsentFails == [][C25_Step]_vars

\* C26, under Spec.  Cache.keys() returns a sequence that holds every key of
\* the table once and nothing else, with the shelve driver and with the
\* DynamoDB driver.
ExactlyTheKeys(r, t) ==
    /\ r.err = "" /\ ~IsNone(r.val)
    /\ {Val(r.val)[i] : i \in 1..Len(Val(r.val))} = DOMAIN t
    /\ Len(Val(r.val)) = Cardinality(DOMAIN t)
C26_Step ==
    \A name \in CallNames :
        Do_keys(name) => ExactlyTheKeys(Cache_keys(Table(name)), Table(name))
C26_KeysReturnsKeys == [][C26_Step]_vars

\* C27, under SpecReload.  While DynamoCache.reload writes to a table whose
\* write capacity was below 10 when it was called, the capacity is 10; and
\* when reload returns or raises, the table's write capacity is the one it had
\* when reload was called.
C27_RaisedWhileWriting ==
    (run.pc = "reload_write" /\ run.old_capacity < RELOAD_WRITE_CAPACITY)
    => throughput[run.name] = RELOAD_WRITE_CAPACITY
C27_Step ==
    DynamoCache_reload_finally => throughput'[run.name] = run.old_capacity
C27_ReloadRestoresThroughput == [][C27_RaisedWhileWriting' /\ C27_Step]_vars

\* C28, under SpecSync.  No step of a create_cache call whose download fails,
\* or whose payload cannot be decoded, changes a cache that is ready: after
\* the step its meta entry is ready with the version it had, and its table
\* holds what it held.
FetchOrDecodeFails ==
    \/ BaseTerytCache_create_cache_download_fails
    \/ /\ run.pc \in {"cc_create", "cc_decode"}
       /\ ~run.data.wellformed
       /\ \/ BaseTerytCache_create_cache_create
          \/ BaseTerytCache_create_cache_decode
C28_Step ==
    (Status(Path(cat)) = "ready" /\ FetchOrDecodeFails)
    => /\ Status(Path(cat))' = "ready"
       /\ StoredVersion(Path(cat))' = StoredVersion(Path(cat))
       /\ TableEq(Table(Path(cat)), Table(Path(cat))')
C28_FailedBuildKeepsReady == [][C28_Step]_vars

\* C29, under SpecSync.  When the replay has applied the first record of an
\* update that has more records, and the record changed the table, the table
\* is an intermediate one: get_cache of the catalog's cache does not return
\* it, whatever version is asked for.
C29_Step ==
    (/\ run.pc = "g_apply" /\ run.applied = 0 /\ Len(run.pending) > 1
     /\ BaseTerytCache_cache_update_apply
     /\ run'.pc = "g_apply"
     /\ ~TableEq(Table(Path(cat)), Table(Path(cat))'))
    => \A v \in VersionArgs : get_cache(Path(cat), v)'.err # ""
C29_NoIntermediateContent == [][C29_Step]_vars

\* C30, under SpecReplay.  When the replay applies a Transfer (P) record to the
\* localities or the units cache, the step ends as the catalog's Modify
\* handler (Z for localities, M for units) ends on the same record and table:
\* it returns when the handler returns, it fails with the handler's error
\* when the handler fails, and the table is the one the handler leaves.
ModifyOp(c) == IF c = "simc" THEN "Z" ELSE "M"
AsModify(c, obj) == [obj EXCEPT !.op = ModifyOp(c)]
C30_Same(m) ==
    /\ TableEq(Table(Path(cat))', m.tbl)
    /\ IF m.err = "" THEN run'.pc = "g_apply"
       ELSE run'.pc = "idle" /\ last'.err = m.err
C30_Step ==
    (Applying("P") /\ BaseTerytCache_cache_update_apply)
    => C30_Same(handle(cat, run.ser, Table(Path(cat)), AsModify(cat, Head(run.pending))))
C30_TransferIsModify == [][C30_Step]_vars

\* C31, under SpecUlic.  When the replay applies a member Modify (M) record
\* to the streets cache whose "after" fields name another street symbol, and
\* the entry of the old street holds the member the record names, the handler
\* returns and the member has moved: the old street's entry is gone when the
\* member was its last one, and otherwise it can be read and holds the other
\* members; the new street's entry can be read and holds the member.
ChangesStreet(obj) ==
    /\ PyTruthy(StreetKey(obj.po))
    /\ ~PyEq(StreetKey(obj.po), StreetKey(obj.przed))
C31_Step ==
    (Applying("M")
        /\ ChangesStreet(Head(run.pending))
        /\ StreetMember(Head(run.pending).przed)
              \in StoredMembers(Table(Path(cat)), StreetKey(Head(run.pending).przed).v)
        /\ BaseTerytCache_cache_update_apply)
    => /\ run'.pc = "g_apply"
       /\ IF StoredMembers(Table(Path(cat)), StreetKey(Head(run.pending).przed).v)
                = {StreetMember(Head(run.pending).przed)}
          THEN StreetKey(Head(run.pending).przed).v \notin DOMAIN Table(Path(cat))'
          ELSE /\ Retrievable(cat, Table(Path(cat))', StreetKey(Head(run.pending).przed))
               /\ StoredMembers(Table(Path(cat))', StreetKey(Head(run.pending).przed).v)
                    = StoredMembers(Table(Path(cat)),
                                    StreetKey(Head(run.pending).przed).v)
                        \ {StreetMember(Head(run.pending).przed)}
       /\ Retrievable(cat, Table(Path(cat))', StreetKey(Head(run.pending).po))
       /\ StreetMember(Head(run.pending).przed)
              \in StoredMembers(Table(Path(cat))', StreetKey(Head(run.pending).po).v)
C31_StreetModifyMoves == [][C31_Step]_vars

\* C32, under SpecUlic.  When the replay applies a shared-field change (Z)
\* record to the streets cache and the street the record names has an entry,
\* the handler returns; the entry is then stored under the street symbol of
\* the "after" fields when they give one (and no entry is left under the old
\* symbol), under the old symbol otherwise; it can be read, every member
\* carries the non-empty "after" fields, and the entry's qualifier label and
\* canonical name are those of its members.
StreetFields ==
    [identyfikatornazwyulicy |-> "symul", nazwa1 |-> "nazwa_1", nazwa2 |-> "nazwa_2",
     cecha |-> "cecha"]
StreetKeyAfter(obj) ==
    IF PyTruthy(StreetKey(obj.po)) THEN StreetKey(obj.po) ELSE StreetKey(obj.przed)
Propagated(stored, po) ==
    \A i \in 1..Len(stored.entries) :
        /\ \A f \in DOMAIN StreetFields :
              PyTruthy(po[f]) =>
                 PyEq(stored.entries[i][StreetFields[f]],
                      IF f = "identyfikatornazwyulicy" THEN py_int(po[f]) ELSE po[f])
        /\ PyEq(stored.cecha,
                S(ULIC_CECHA_MAPPING[PyUpper(stored.entries[i].cecha.v)]))
        /\ PyEq(stored.nazwa,
                clean_street_name(stored.entries[i].cecha, stored.entries[i].nazwa_2,
                                  stored.entries[i].nazwa_1).val)
C32_Step ==
    (Applying("Z")
        /\ StreetKey(Head(run.pending).przed).v \in DOMAIN Table(Path(cat))
        /\ BaseTerytCache_cache_update_apply)
    => /\ run'.pc = "g_apply"
       /\ Retrievable(cat, Table(Path(cat))', StreetKeyAfter(Head(run.pending)))
       /\ Propagated(Table(Path(cat))'[StreetKeyAfter(Head(run.pending)).v].pb,
                     Head(run.pending).po)
       /\ ChangesStreet(Head(run.pending))
            => StreetKey(Head(run.pending).przed).v \notin DOMAIN Table(Path(cat))'
C32_StreetChangePropagates == [][C32_Step]_vars

\* C33, under SpecUlic.  In every state every entry of the streets cache is
\* stored under the street symbol it carries, each of its members carries
\* that street symbol, and no two of its members have the same locality
\* symbol.  In every state, adding to the cache an entry of which one member
\* carries another street symbol fails with ValueError, so nothing is stored.
WellFormedStreet(k, stored) ==
    /\ PyEq(py_int(S(k)), stored.symul)
    /\ \A i \in 1..Len(stored.entries) : PyEq(stored.entries[i].symul, stored.symul)
    /\ \A i, j \in 1..Len(stored.entries) :
          PyEq(stored.entries[i].sym, stored.entries[j].sym) => i = j
\* the entries of the catalog's streets with one member set to another street
MixedStreets ==
    UNION { { [m EXCEPT !.entries[i][2].symul = S("21448")] : i \in 1..Len(m.entries) } :
            m \in { UlicMultiEntry_from_list(
                        [n \in 1..Len(rows) |-> entry_init("ulic", rows[n])]).val :
                      rows \in SeqsUpTo(UlicRows, MaxRows) \ {<<>>} } }
C33_StreetsWellFormed ==
    /\ \A k \in DOMAIN Table(TERYT_ULIC_DB) :
          WellFormedStreet(k, Table(TERYT_ULIC_DB)[k].pb)
    /\ \A m \in MixedStreets :
          entry_add("ulic", Table(TERYT_ULIC_DB), m.symul, m).err = "ValueError"
C33_Witness ==
    /\ cat = "ulic"
    /\ Status(TERYT_ULIC_DB) = "ready"
    /\ \E k \in DOMAIN Table(TERYT_ULIC_DB) :
          Len(Table(TERYT_ULIC_DB)[k].pb.entries) = 2

\* C34, under SpecUlic.  While a replay on the streets cache has applied at
\* least one record and every record it applied returned, every entry stored
\* in the streets cache can be read: get() of its key returns the street's
\* entry (UlicMultiEntry.from_dict raises nothing).
AppliedSome == run.pc = "g_apply" /\ run.applied > 0
C34_StreetsReadable ==
    (cat = "ulic" /\ AppliedSome)
    => \A k \in DOMAIN Table(TERYT_ULIC_DB) :
           Retrievable("ulic", Table(TERYT_ULIC_DB), S(k))

\* C35, under SpecReplay.  Within one replay the records of the update are
\* handled in the order of the update, one at a time: every step that keeps
\* the replay going handles the first record not yet handled, on the table as
\* the step before left it, and leaves the records after it for the next
\* steps; a step that ends the replay is the failure of that first record or
\* the return after the last record; nothing else touches the table meanwhile.
HeadOutcome == handle(cat, run.ser, Table(Path(cat)), Head(run.pending))
C35_Step ==
    run.pc = "g_apply" =>
        \/ /\ run.pending # <<>>
           /\ HeadOutcome.err = ""
           /\ run' = [run EXCEPT !.pending = Tail(run.pending),
                                 !.applied = run.applied + 1]
           /\ TableEq(Table(Path(cat))', HeadOutcome.tbl)
        \/ /\ run.pending # <<>>
           /\ HeadOutcome.err # ""
           /\ run' = Idle /\ last'.err = HeadOutcome.err
           /\ TableEq(Table(Path(cat))', HeadOutcome.tbl)
        \/ /\ run.pending = <<>>
           /\ run'.pc # "g_apply"
           /\ UNCHANGED tables
        \/ UNCHANGED <<run, tables>>
C35_RecordsInOrder == [][C35_Step]_vars
C35_Witness ==
    /\ run.pc = "g_apply" /\ run.applied = 1 /\ run.pending # <<>>
    /\ HeadOutcome.err = ""
    /\ ~TableEq(HeadOutcome.tbl, Table(Path(cat)))

\* the registry goes on publishing while an engine is at work: one catalog
\* more than the dates of Days
RegistryPublishLater ==
    /\ remoteDay <= MaxDay + 1
    /\ remoteDay' = remoteDay + 1
    /\ UNCHANGED <<mgrVars, cat, tz, eng, run>>

\* the sync engine of the localities, its clock and the registry
InitVersion == Init /\ cat = "simc"

NextVersion ==
    \/ BaseTerytCache_create_cache_download
    \/ BaseTerytCache_create_cache_create
    \/ BaseTerytCache_create_cache_decode
    \/ BaseTerytCache_create_cache_reload_add
    \/ BaseTerytCache_create_cache_mark_ready
    \/ BaseTerytCache_get_try
    \/ BaseTerytCache_cache_update_download
    \/ BaseTerytCache_cache_update_apply
    \/ RegistryPublishLater
    \/ Tick

SpecVersion == InitVersion /\ [][NextVersion]_vars

\* C36, under SpecVersion.  cache_version asks the registry only when the
\* instance has not asked yet or more than an hour (VERSION_TTL) has passed
\* since it asked: a call made on the instance before that returns the
\* version of the last probe, also when the registry has published a newer
\* catalog since, and leaves the instance's version and expiry as they were;
\* whenever the instance's version or expiry change, the probe was due and
\* they become the registry's current version and the time plus one hour.
Probed == eng.version_ttl > 0
Fresh == Probed /\ time_time(now) <= eng.version_ttl
C36_Step ==
    /\ (Fresh /\ eng' # NewInstance) => eng' = eng
    /\ Fresh => cache_version.version = eng.version
    /\ (Fresh /\ run.pc = "g_update" /\ run'.pc = "g_apply")
          => run'.end = int_to_datetime(eng.version)
    /\ (eng' # eng /\ eng' # NewInstance)
          => /\ ~Fresh
             /\ eng'.version = date_to_int(remoteDay)
             /\ eng'.version_ttl = time_time(now) + VERSION_TTL
C36_ProbeWithinTtl == [][C36_Step]_vars
C36_Witness ==
    /\ run.pc = "g_apply" /\ run.applied = 0
    /\ Fresh
    /\ eng.version # date_to_int(remoteDay)
    /\ run.end = int_to_datetime(eng.version)

\* C37, under SpecReplay.  Replaying an update twice is replaying it once:
\* when the records of an update have all been applied to the cache, applying
\* the same records again to the resulting cache returns for every record and
\* leaves every entry as it was.
RECURSIVE cache_update_loop(_, _, _, _)
cache_update_loop(c, ser, t, records) ==
    IF records = <<>> THEN Done(t)
    ELSE Bind(handle(c, ser, t, Head(records)), LAMBDA r :
         IF r.err # "" THEN r
         ELSE cache_update_loop(c, ser, r.tbl, Tail(records)))
ReplayedOnce == cache_update_loop(cat, run.ser, Table(Path(cat)), run.pending)
ReplayedTwice == cache_update_loop(cat, run.ser, ReplayedOnce.tbl, run.pending)
C37_ReplayIdempotent ==
    (run.pc = "g_apply" /\ run.applied = 0 /\ run.pending # <<>>
        /\ ReplayedOnce.err = "")
    => /\ ReplayedTwice.err = ""
       /\ TableEq(ReplayedTwice.tbl, ReplayedOnce.tbl)

----------------------------------------------------------------------------
(* Two processes that run create_cache of the localities' engine at the     *)
(* same time on DynamoDB, where a table is one object for every process     *)
(* that names it.  Each process has its own engine instance and its own     *)
(* place in create_cache, which it calls once; run holds both.              *)

Procs == {1, 2}

InitRace ==
    /\ driver = "dynamo"
    /\ tables = [n \in CacheNames \cup {META} |-> EmptyTable]
    /\ itemCount = [n \in CacheNames \cup {META} |-> 0]
    /\ throughput = [n \in CacheNames \cup {META} |-> RELOAD_WRITE_CAPACITY]
    /\ now = 1
    /\ last = [op |-> "init", name |-> "", version |-> None, err |-> ""]
    /\ cat = "simc"
    /\ tz \in TzOffsets
    /\ remoteDay = 2
    /\ eng = NewInstance
    /\ run = [p \in Procs |-> Idle]

\* create_cache, lines 612-613 and the argument of line 616: the process p
\* probes the version, downloads the catalog and decodes it
Process_create_cache_download(p) ==
    /\ run[p].pc = "idle"
    /\ \E rows \in Snapshots(cat) :
          run' = [run EXCEPT ![p] =
                     [pc |-> "cc_create", version |-> cache_version.version,
                      contents |-> data_to_cache_contents(cat, Payload(rows))]]
    /\ UNCHANGED <<mgrVars, cat, tz, remoteDay, eng>>

\* create_cache, line 614: get_cache_manager().create_cache(self.path)
Process_create_cache_create(p) ==
    /\ run[p].pc = "cc_create"
    /\ tables' = create_cache(Path(cat)).tbl
    /\ itemCount' = create_cache(Path(cat)).cnt
    /\ run' = [run EXCEPT ![p] = [pc |-> "cc_reload", version |-> run[p].version,
                                  contents |-> run[p].contents,
                                  pending |-> run[p].contents]]
    /\ UNCHANGED <<driver, throughput, now, last, cat, tz, remoteDay, eng>>

\* Cache.reload: one add of the loop over contents.items()
Process_create_cache_reload_add(p) ==
    /\ run[p].pc = "cc_reload"
    /\ run[p].pending # <<>>
    /\ LET item == Head(run[p].pending)
           r == entry_add(cat, Table(Path(cat)), item[1], item[2])
       IN IF r.err = ""
          THEN /\ tables' = (Path(cat) :> r.val) @@ tables
               /\ run' = [run EXCEPT ![p].pending = Tail(run[p].pending)]
          ELSE /\ run' = [run EXCEPT ![p] = Idle]
               /\ UNCHANGED tables
    /\ UNCHANGED <<driver, throughput, itemCount, now, last, cat, tz, remoteDay, eng>>

\* create_cache, line 617: mark_ready(self.path, version) after reload returned;
\* the call has returned, and loaded keeps the catalog it has loaded
Process_create_cache_mark_ready(p) ==
    /\ run[p].pc = "cc_reload"
    /\ run[p].pending = <<>>
    /\ tables' = (META :> mark_ready(Path(cat), run[p].version)) @@ tables
    /\ run' = [run EXCEPT ![p] = [pc |-> "returned", loaded |-> run[p].contents]]
    /\ UNCHANGED <<driver, throughput, itemCount, now, last, cat, tz, remoteDay, eng>>

NextRace ==
    \/ \E p \in Procs : Process_create_cache_download(p)
    \/ \E p \in Procs : Process_create_cache_create(p)
    \/ \E p \in Procs : Process_create_cache_reload_add(p)
    \/ \E p \in Procs : Process_create_cache_mark_ready(p)
    \/ RegistryPublish
    \/ DynamoItemCountUpdate(Path(cat))

SpecRace == InitRace /\ [][NextRace]_vars

\* C38, under SpecRace.  While two processes run create_cache for the same
\* cache, no reader is given the cache as long as the reload of either
\* process has entries left to add, or the table is not what a reload of one
\* of the catalogs that the processes have loaded or are loading leaves in an
\* empty table: get_cache of the name fails then for every version asked for.
ReloadInProgress ==
    \E p \in Procs : run[p].pc = "cc_reload" /\ run[p].pending # <<>>
Catalogs ==
    { run[p].contents : p \in {q \in Procs : run[q].pc = "cc_reload"} }
        \cup { run[p].loaded : p \in {q \in Procs : run[q].pc = "returned"} }
CompleteSnapshot ==
    \E contents \in Catalogs :
        TableEq(Table(Path(cat)), Cache_reload(cat, EmptyTable, contents).val)
C38_NoReaderDuringReload ==
    (ReloadInProgress \/ ~CompleteSnapshot)
    => \A v \in VersionArgs : get_cache(Path(cat), v).err # ""

----------------------------------------------------------------------------
(* The conversions between versions and dates, on machines in any time zone *)

\* the offsets of local time from UTC that are in use, in whole hours
LocalOffsets == {h * Hour : h \in (0 - 12)..14}

InitDates ==
    /\ driver \in {"shelve", "dynamo"}
    /\ tables = IF driver = "shelve" THEN (META :> EmptyTable)
                ELSE [n \in CacheNames \cup {META} |-> EmptyTable]
    /\ itemCount = [n \in CacheNames \cup {META} |-> 0]
    /\ throughput = [n \in CacheNames \cup {META} |-> RELOAD_WRITE_CAPACITY]
    /\ now = 1
    /\ last = [op |-> "init", name |-> "", version |-> None, err |-> ""]
    /\ cat = "simc"
    /\ tz \in LocalOffsets
    /\ remoteDay \in Days
    /\ eng = NewInstance
    /\ run = Idle

\* _date_to_int(d) for the date d of the registry's catalog
Convert_date_to_int ==
    /\ run.pc = "idle"
    /\ run' = [pc |-> "version", d |-> remoteDay, version |-> date_to_int(remoteDay)]
    /\ UNCHANGED <<mgrVars, cat, tz, remoteDay, eng>>

\* _int_to_datetime(version) on the version that _date_to_int returned
Convert_int_to_datetime ==
    /\ run.pc = "version"
    /\ run' = [pc |-> "date", d |-> run.d, version |-> run.version,
               date |-> int_to_datetime(run.version)]
    /\ UNCHANGED <<mgrVars, cat, tz, remoteDay, eng>>

NextDates ==
    \/ Convert_date_to_int
    \/ Convert_int_to_datetime

SpecDates == InitDates /\ [][NextDates]_vars

\* C39, under SpecDates.  In every time zone the date of the version of a
\* date d is d: _int_to_datetime(_date_to_int(d)) = d; and so the version of
\* that date is not greater than the version it was derived from.
C39_DatesRoundTrip ==
    run.pc = "date" =>
        /\ run.date = run.d
        /\ date_to_int(run.date) <= run.version

----------------------------------------------------------------------------
(* The sync engine of the localities at work on its cache, and a caller of  *)
(* the cache manager that builds and fills the cache of another name        *)

NextFrame ==
    \/ BaseTerytCache_create_cache_download
    \/ BaseTerytCache_create_cache_create
    \/ BaseTerytCache_create_cache_decode
    \/ BaseTerytCache_create_cache_reload_add
    \/ BaseTerytCache_create_cache_mark_ready
    \/ BaseTerytCache_get_try
    \/ BaseTerytCache_cache_update_download
    \/ BaseTerytCache_cache_update_apply
    \/ RegistryPublish
    \/ Do_create_cache(TERYT_WMRODZ_DB)
    \/ \E v \in Versions : Do_mark_ready(TERYT_WMRODZ_DB, v)
    \/ \E key \in DictKeys, value \in DictValues : Do_add(TERYT_WMRODZ_DB, key, value)

SpecFrame == InitManager /\ [][NextFrame]_vars

\* C40, under SpecFrame.  create_cache, the adds of reload, mark_ready and the
\* records of a replay, made by the engine on its cache, leave the meta entry
\* and the table of every other name as they were; and create_cache,
\* mark_ready and add, called for another name, leave the engine's meta
\* entry and table as they were.
Frame(name) ==
    \A other \in CacheNames \ {name} :
        /\ Entry(other)' = Entry(other)
        /\ Table(other)' = Table(other)
EngineWrites ==
    \/ BaseTerytCache_create_cache_create
    \/ BaseTerytCache_create_cache_reload_add
    \/ BaseTerytCache_create_cache_mark_ready
    \/ BaseTerytCache_cache_update_apply
CallerWrites(name) ==
    \/ Do_create_cache(name)
    \/ \E v \in Versions : Do_mark_ready(name, v)
    \/ \E key \in DictKeys, value \in DictValues : Do_add(name, key, value)
C40_Step ==
    /\ EngineWrites => Frame(Path(cat))
    /\ CallerWrites(TERYT_WMRODZ_DB) => Frame(TERYT_WMRODZ_DB)
C40_OtherNamesUnchanged == [][C40_Step]_vars
C40_Witness ==
    /\ Status(TERYT_WMRODZ_DB) = "ready"
    /\ Table(TERYT_WMRODZ_DB) # EmptyTable
    /\ Status(Path(cat)) = "ready"
    /\ Table(Path(cat)) # EmptyTable
    /\ AppliedSome
====
